---- MODULE Spec2Model ----
(***************************************************************************)
(* Model of the socket interception state machine of ip2unix               *)
(* (src/src/socket.cc): the fd -> Socket registry, the path registry and   *)
(* the per-Socket shadow state, driven by the public methods of Socket.    *)
(*                                                                         *)
(* Optional values (std::optional<T>) are sequences of length 0 or 1.      *)
(* Strings that the code inspects character by character (templates and    *)
(* paths) are sequences of one-character strings.                          *)
(***************************************************************************)
EXTENDS Integers, Sequences, FiniteSets, TLC

VARIABLES
    registry,           \* Socket::registry: fd -> Socket (socket.cc:47)
    sockpath_registry,  \* Socket::sockpath_registry (socket.cc:48)
    fs,                 \* socket files this process has bound and not unlinked
    nextId,             \* identity of the next Socket object constructed
    lastReg,            \* history: fd -> identity last registered, if still open
    last,               \* the last intercepted call: operation, fd, return value
    detail,             \* what else the last call did, where it is recorded
    peerlog,            \* history of rewrite_src: per Socket and reported path
    optlog,             \* history of setsockopt and ioctl: per Socket
    acclog,             \* history of accept: the peer ports given, per Socket
    registry_mutex,     \* Socket::registry_mutex: the thread that holds it, or 0
    thr,                \* per thread: the intercepted call it is in, and where
    busy,               \* per registry: the threads in the middle of changing it
    acc,                \* the last access to a registry: by whom, how, locked?
    fmt,                \* a call of format_sockpath: its arguments and its result
    cli                 \* the launcher's main: its command line and how far it is

\* The variables of the threads.
tvars == <<registry_mutex, thr, busy, acc>>

\* The variables outside the Socket registries: a format_sockpath call on its
\* own, and the launcher (a separate process image, src/src/ip2unix.cc).
avars == <<fmt, cli>>

vars == <<registry, sockpath_registry, fs, nextId, lastReg, last, detail, peerlog,
          optlog, acclog, registry_mutex, thr, busy, acc, fmt, cli>>

----------------------------------------------------------------------------
(* Bounds of the model.                                                    *)

NumFds == 2         \* descriptors 1..NumFds
MaxSockets == 2     \* Socket objects constructed in one behaviour of Spec
MaxObjects == 2     \* Socket objects constructed in one behaviour of SpecSock
MaxPort == 4        \* ports 0..MaxPort
MaxPeerObjects == 1 \* Socket objects constructed in SpecPeer
MaxOpts == 1        \* entries of one Socket's option cache
MaxCached == 2      \* entries of one Socket's option cache in SpecOpt
MaxOptObjects == 1  \* Socket objects constructed in SpecOpt
MaxAddrObjects == 1 \* Socket objects constructed in SpecAddr
MaxAcceptObjects == 3 \* Socket objects constructed in SpecAccept
NumThreads == 2     \* threads 1..NumThreads of SpecThreads
MaxThreadObjects == 3 \* Socket objects constructed in SpecThreads
MaxTemplateLen == 3 \* characters of a path template in SpecFormat
MaxArgs == 4        \* words on the launcher's command line in SpecMain

----------------------------------------------------------------------------
(* std::optional                                                           *)

nullopt == <<>>
Some(v) == <<v>>
Has(o) == Len(o) > 0
Val(o) == o[1]

----------------------------------------------------------------------------
(* Input domains.                                                          *)

Fds == 1..NumFds

Loopback == "127.0.0.1"
Remote == "10.0.0.5"
CredSelf == "cred:self"

MkAddr(h, p) == [host |-> Some(h), port |-> Some(p)]


----------------------------------------------------------------------------
(* Collaborators of Socket (address abstraction, port allocator, blackhole *)
(* sink, kernel), as far as Socket relies on them.                         *)

\* Textual forms used by placeholder expansion.
Chars(str) ==
    CASE str = "tcp" -> <<"t", "c", "p">>
      [] str = "udp" -> <<"u", "d", "p">>
      [] str = "unknown" -> <<"u", "n", "k", "n", "o", "w", "n">>
      [] str = Loopback -> <<"1", "2", "7", ".", "0", ".", "0", ".", "1">>
      [] str = Remote -> <<"1", "0", ".", "0", ".", "0", ".", "5">>
      [] OTHER -> <<"c", "r", "e", "d">>

Digit(d) == <<"0", "1", "2", "3", "4", "5", "6", "7", "8", "9">>[d + 1]

RECURSIVE DecStr(_)
DecStr(n) == IF n < 10 THEN <<Digit(n)>> ELSE DecStr(n \div 10) \o <<Digit(n % 10)>>

\* SockAddr::get_host / get_port / get_port_str
get_host(addr) == IF Has(addr.host) THEN Some(Chars(Val(addr.host))) ELSE nullopt
get_port(addr) == addr.port
get_port_str(addr) == IF Has(addr.port) THEN Some(DecStr(Val(addr.port))) ELSE nullopt
value_or(o, dflt) == IF Has(o) THEN Val(o) ELSE dflt

is_loopback(addr) == Has(addr.host) /\ Val(addr.host) = Loopback
set_port(addr, p) == [addr EXCEPT !.port = Some(p)]
set_host(addr, h) == [addr EXCEPT !.host = Some(h)]
EmptyAddr == [host |-> nullopt, port |-> nullopt]

\* SockAddr::unix(path): absent when the path does not fit into sun_path.
SunPathMax == 8
unix(path) == IF Len(path) <= SunPathMax THEN Some(path) ELSE nullopt

\* DynPorts: the ephemeral range and acquire()/reserve().
EphLo == 2
EphPorts == EphLo..MaxPort
acquire(ports, pick) == ports \cup {pick}
reserve(ports, p) == ports \cup {p}

\* BlackHole: unique throwaway paths; the path is unlinked when the handle drops.
BhPaths == { <<"#", Digit(i)>> : i \in Fds }

\* The path an adopted (socket-activated) descriptor is bound to by its owner.
ActivationPath == <<"@">>

----------------------------------------------------------------------------
(* Socket::format_sockpath                                                 *)

Expand_HostForPort(c, addr, type) ==
    CASE c = "%" -> <<"%">>
      [] c = "a" -> value_or(get_port_str(addr), Chars("unknown"))
      [] c = "p" -> value_or(get_host(addr), Chars("unknown"))
      [] c = "t" -> IF type = "TCP" THEN Chars("tcp")
                    ELSE IF type = "UDP" THEN Chars("udp")
                    ELSE Chars("unknown")

Expand(c, addr, type) ==
    CASE c = "%" -> <<"%">>
      [] c = "a" -> value_or(get_host(addr), Chars("unknown"))
      [] c = "p" -> value_or(get_port_str(addr), Chars("unknown"))
      [] c = "t" -> IF type = "TCP" THEN Chars("tcp")
                    ELSE IF type = "UDP" THEN Chars("udp")
                    ELSE Chars("unknown")

RECURSIVE format_from(_, _, _, _)
format_from(path, i, addr, type) ==
    IF i > Len(path) THEN <<>>
    ELSE IF path[i] = "%" /\ i + 1 <= Len(path) /\ path[i + 1] \in {"%", "p", "t", "a"}
         THEN Expand(path[i + 1], addr, type) \o format_from(path, i + 2, addr, type)
         ELSE <<path[i]>> \o format_from(path, i + 1, addr, type)

format_sockpath(path, addr, type) == format_from(path, 1, addr, type)

----------------------------------------------------------------------------
(* The Socket object.  kpath and kconn are not fields of the class: they   *)
(* record what the kernel knows about the descriptor (the path it is bound *)
(* to, whether a stream is connected), which decides whether the real      *)
(* bind and connect can succeed.  bpath is not a field either: it records  *)
(* the formatted path of the Socket's successful bind.                     *)

\* Defaults of the two flags the constructor's initialiser list leaves out.
InitIsUnix == FALSE
InitIsBlackhole == FALSE

get_sotype(stype) ==
    CASE stype = "SOCK_STREAM" -> "TCP"
      [] stype = "SOCK_DGRAM" -> "UDP"
      [] OTHER -> "INVALID"

EmptyMap == [x \in {} |-> x]

NewSocket(id, sfd, stype) ==
    [ id |-> id,
      type |-> get_sotype(stype),
      fd |-> sfd,
      typearg |-> stype,
      activated |-> FALSE,
      bound |-> FALSE,
      is_unix |-> InitIsUnix,
      is_blackhole |-> InitIsBlackhole,
      binding |-> nullopt,
      connection |-> nullopt,
      sockpath |-> nullopt,
      sockopts |-> <<>>,
      ports |-> {},
      peermap |-> EmptyMap,
      revpeermap |-> EmptyMap,
      blackhole_ref |-> nullopt,
      kpath |-> nullopt,
      kconn |-> FALSE,
      bpath |-> nullopt ]

\* Socket::find
find(reg, fd) == IF fd \in DOMAIN reg THEN Some(reg[fd]) ELSE nullopt

\* Socket::has_sockpath
has_sockpath(paths, path) == path \in paths

\* Socket::registry[fd] = sock
RegistryPut(reg, fd, sock) ==
    [f \in (DOMAIN reg) \cup {fd} |-> IF f = fd THEN sock ELSE reg[f]]

\* Variant of registry.erase that leaves the entry in place.
RegistryErase_Keep(reg, fd) == reg

\* Socket::registry.erase(fd)
RegistryErase(reg, fd) == [f \in (DOMAIN reg) \ {fd} |-> reg[f]]

\* BlackHole::~BlackHole for the handle the Socket holds: the path it unlinks.
BlackholeDrop(s) == IF Has(s.blackhole_ref) THEN {Val(s.blackhole_ref)} ELSE {}

\* Variant of the destructor that unlinks the path of an activated Socket too.
DtorUnlinks_Activated(s) ==
    (IF Has(s.sockpath) /\ s.bound THEN {Val(s.sockpath)} ELSE {})
    \cup BlackholeDrop(s)

\* Socket::~Socket and the destruction of its members: the paths unlinked.
DtorUnlinks(s) ==
    (IF Has(s.sockpath) /\ s.bound /\ ~s.activated THEN {Val(s.sockpath)} ELSE {})
    \cup BlackholeDrop(s)

\* The Socket a registry slot holds is destroyed when the slot is overwritten.
ReplacedUnlinks(reg, fd) ==
    IF fd \in DOMAIN reg THEN DtorUnlinks(reg[fd]) ELSE {}

\* Socket::blackhole
blackhole(s) == [s EXCEPT !.is_blackhole = TRUE]

\* Variant of make_unix without the early return for a Socket that is
\* already UNIX.
make_unix_Again(s, adopt, f) ==
    IF ~adopt /\ f = "socket" THEN [s |-> s, ok |-> FALSE, real |-> {"socket"}]
    ELSE LET made == IF adopt THEN {} ELSE {"socket"} IN
         IF f = "replay"
         THEN [s |-> s, ok |-> FALSE, real |-> made \cup {"replay", "close(newfd)"}]
         ELSE IF f = "dup2"
         THEN [s |-> s, ok |-> FALSE,
               real |-> made \cup {"replay", "close(newfd)", "dup2"}]
         ELSE [s |-> [s EXCEPT !.is_unix = TRUE,
                               !.kpath = IF adopt THEN Some(ActivationPath) ELSE nullopt,
                               !.kconn = FALSE],
               ok |-> TRUE,
               real |-> made \cup {"replay", "dup2"}]

\* Variant of make_unix that sets is_unix before dup2 has succeeded.
make_unix_FlagFirst(s, adopt, f) ==
    IF s.is_unix THEN [s |-> s, ok |-> TRUE, real |-> {}]
    ELSE IF ~adopt /\ f = "socket" THEN [s |-> s, ok |-> FALSE, real |-> {"socket"}]
    ELSE LET made == IF adopt THEN {} ELSE {"socket"} IN
         IF f = "replay"
         THEN [s |-> s, ok |-> FALSE, real |-> made \cup {"replay", "close(newfd)"}]
         ELSE IF f = "dup2"
         THEN [s |-> [s EXCEPT !.is_unix = TRUE], ok |-> FALSE,
               real |-> made \cup {"replay", "close(newfd)", "dup2"}]
         ELSE [s |-> [s EXCEPT !.is_unix = TRUE,
                               !.kpath = IF adopt THEN Some(ActivationPath) ELSE nullopt,
                               !.kconn = FALSE],
               ok |-> TRUE,
               real |-> made \cup {"replay", "dup2"}]

\* Socket::make_unix.  adopt: a descriptor was passed (oldfd != -1).
\* f names the step that fails in this call, if any.
make_unix(s, adopt, f) ==
    IF s.is_unix THEN [s |-> s, ok |-> TRUE, real |-> {}]
    ELSE IF ~adopt /\ f = "socket" THEN [s |-> s, ok |-> FALSE, real |-> {"socket"}]
    ELSE LET made == IF adopt THEN {} ELSE {"socket"} IN
         IF f = "replay"
         THEN [s |-> s, ok |-> FALSE, real |-> made \cup {"replay", "close(newfd)"}]
         ELSE IF f = "dup2"
         THEN [s |-> s, ok |-> FALSE,
               real |-> made \cup {"replay", "close(newfd)", "dup2"}]
         ELSE [s |-> [s EXCEPT !.is_unix = TRUE,
                               !.kpath = IF adopt THEN Some(ActivationPath) ELSE nullopt,
                               !.kconn = FALSE],
               ok |-> TRUE,
               real |-> made \cup {"replay", "dup2"}]

\* Variant of create_binding that always derives the host from the
\* credentials.
create_binding_CredOnly(s, addr, pick, f) ==
    IF f = "set_host" THEN [s |-> s, ok |-> FALSE, acq |-> nullopt]
    ELSE LET local == set_host(EmptyAddr, CredSelf)
             s1 == [s EXCEPT !.ports = acquire(@, pick)]
         IN  IF f = "set_port" THEN [s |-> s1, ok |-> FALSE, acq |-> Some(pick)]
             ELSE [s |-> [s1 EXCEPT !.binding = Some(set_port(local, pick))],
                   ok |-> TRUE, acq |-> Some(pick)]

\* Socket::create_binding.  pick is the port ports.acquire() returns.
create_binding(s, addr, pick, f) ==
    IF f = "set_host" THEN [s |-> s, ok |-> FALSE, acq |-> nullopt]
    ELSE LET local == set_host(EmptyAddr,
                               IF is_loopback(addr) THEN Val(addr.host) ELSE CredSelf)
             s1 == [s EXCEPT !.ports = acquire(@, pick)]
         IN  IF f = "set_port" THEN [s |-> s1, ok |-> FALSE, acq |-> Some(pick)]
             ELSE [s |-> [s1 EXCEPT !.binding = Some(set_port(local, pick))],
                   ok |-> TRUE, acq |-> Some(pick)]

\* The kernel's bind on a UNIX socket: the descriptor has no address yet and
\* the path does not exist.
real_bind_ok(s, path, fsys, f) == f /= "bind" /\ ~Has(s.kpath) /\ path \notin fsys

\* The outcome of one intercepted call.
Outcome(s, paths, fsys, ret, errno, real, unl, acq, path, note, out) ==
    [ s |-> s, paths |-> paths, fs |-> fsys, ret |-> ret, errno |-> errno,
      real |-> real, unl |-> unl, acq |-> acq, path |-> path, note |-> note,
      out |-> out ]

----------------------------------------------------------------------------
(* Socket::setsockopt, Socket::ioctl, Socket::activate                     *)

\* SockoptCache::cache_sockopt / cache_ioctl
cache_append(cache, entry) == Append(cache, entry)

\* Variant of setsockopt that caches the option before it looks at the
\* return value of the real call.
setsockopt_CacheFirst(s, paths, fsys, opt, f) ==
    LET s1 == IF ~s.is_unix
              THEN [s EXCEPT !.sockopts = cache_append(@, <<"sockopt", opt>>)]
              ELSE s
    IN  IF f = "setsockopt"
        THEN Outcome(s1, paths, fsys, -1, "sys", {"setsockopt"}, {}, nullopt, nullopt,
                     "failed", nullopt)
        ELSE Outcome(s1, paths, fsys, 0, "keep", {"setsockopt"}, {}, nullopt, nullopt,
                     IF s.is_unix THEN "live" ELSE "cached", nullopt)

\* Socket::setsockopt
setsockopt(s, paths, fsys, opt, f) ==
    IF f = "setsockopt"
    THEN Outcome(s, paths, fsys, -1, "sys", {"setsockopt"}, {}, nullopt, nullopt,
                 "failed", nullopt)
    ELSE Outcome(IF ~s.is_unix
                 THEN [s EXCEPT !.sockopts = cache_append(@, <<"sockopt", opt>>)]
                 ELSE s,
                 paths, fsys, 0, "keep", {"setsockopt"}, {}, nullopt, nullopt,
                 IF s.is_unix THEN "live" ELSE "cached", nullopt)

\* Socket::ioctl
ioctl(s, paths, fsys, req, f) ==
    IF f = "ioctl"
    THEN Outcome(s, paths, fsys, -1, "sys", {"ioctl"}, {}, nullopt, nullopt,
                 "failed", nullopt)
    ELSE Outcome(IF ~s.is_unix
                 THEN [s EXCEPT !.sockopts = cache_append(@, <<"ioctl", req>>)]
                 ELSE s,
                 paths, fsys, 0, "keep", {"ioctl"}, {}, nullopt, nullopt,
                 IF s.is_unix THEN "live" ELSE "cached", nullopt)

\* Variant of activate that marks the Socket activated before make_unix has
\* succeeded.
activate_Early(s, paths, fsys, addr, f) ==
    LET mu == make_unix(s, TRUE, f) IN
    IF ~mu.ok
    THEN Outcome([s EXCEPT !.activated = TRUE], paths, fsys, -1, "sys", mu.real, {},
                 nullopt, nullopt, "make_unix", nullopt)
    ELSE Outcome([mu.s EXCEPT !.bound = TRUE, !.binding = Some(addr),
                               !.activated = TRUE],
                 paths, fsys, 0, "keep", mu.real, {}, nullopt, nullopt,
                 "activated", nullopt)

\* Socket::activate
activate(s, paths, fsys, addr, f) ==
    LET mu == make_unix(s, TRUE, f) IN
    IF ~mu.ok
    THEN Outcome(mu.s, paths, fsys, -1, "sys", mu.real, {}, nullopt, nullopt,
                 "make_unix", nullopt)
    ELSE Outcome([mu.s EXCEPT !.bound = TRUE, !.binding = Some(addr),
                               !.activated = TRUE],
                 paths, fsys, 0, "keep", mu.real, {}, nullopt, nullopt,
                 "activated", nullopt)

----------------------------------------------------------------------------
(* Socket::bind                                                            *)

\* socket.cc:302-306: bookkeeping after a successful underlying bind.
bind_success(s, port, newaddr, newpath) ==
    [s EXCEPT !.ports = IF Has(port) THEN reserve(@, Val(port)) ELSE @,
              !.bound = TRUE,
              !.binding = Some(newaddr),
              !.bpath = Some(newpath)]

\* Variant of the condition that ignores the is_blackhole flag.
bind_is_duplicate_PathOnly(s, paths, newpath) == has_sockpath(paths, newpath)

\* socket.cc:284: the condition that sends the bind to a blackhole path.
bind_is_duplicate(s, paths, newpath) == s.is_blackhole \/ has_sockpath(paths, newpath)

\* socket.cc:285-292: bind on a blackhole path.  bh is what BlackHole::get_path
\* returns; the BlackHole is a local, so its path is unlinked on return.
bind_blackhole(s, paths, fsys, bh, port, newaddr, newpath, real, acq, f) ==
    IF ~Has(bh)
    THEN Outcome(s, paths, fsys, -1, "keep", real, {}, acq, Some(newpath),
                 "blackhole", nullopt)
    ELSE IF ~Has(unix(Val(bh)))
    THEN Outcome(s, paths, fsys, -1, "EFAULT", real, {Val(bh)}, acq, Some(newpath),
                 "blackhole", nullopt)
    ELSE IF ~real_bind_ok(s, Val(bh), fsys, f)
    THEN Outcome(s, paths, fsys, -1, "sys", real \cup {"bind"}, {Val(bh)}, acq,
                 Some(newpath), "blackhole", nullopt)
    ELSE Outcome(bind_success([s EXCEPT !.is_blackhole = TRUE, !.kpath = bh],
                              port, newaddr, newpath),
                 paths, fsys \ {Val(bh)}, 0, "keep", real \cup {"bind"}, {Val(bh)},
                 acq, Some(newpath), "blackhole", nullopt)

\* socket.cc:293-300: bind on the formatted path, which this Socket then owns.
bind_own(s, paths, fsys, port, newaddr, newpath, real, acq, f) ==
    IF ~Has(unix(newpath))
    THEN Outcome(s, paths, fsys, -1, "EFAULT", real, {}, acq, Some(newpath),
                 "own", nullopt)
    ELSE IF ~real_bind_ok(s, newpath, fsys, f)
    THEN Outcome(s, paths, fsys, -1, "sys", real \cup {"bind"}, {}, acq,
                 Some(newpath), "own", nullopt)
    ELSE Outcome(bind_success([s EXCEPT !.sockpath = Some(newpath),
                                        !.kpath = Some(newpath)],
                              port, newaddr, newpath),
                 paths \cup {newpath}, fsys \cup {newpath}, 0, "keep",
                 real \cup {"bind"}, {}, acq, Some(newpath), "own", nullopt)

\* Variant of bind that formats the path before the port is substituted.
bind_FormatFirst(s0, paths, fsys, addr, path, pick, bh, f) ==
    LET mu == make_unix(s0, FALSE, f) IN
    IF ~mu.ok
    THEN Outcome(mu.s, paths, fsys, -1, "sys", mu.real, {}, nullopt, nullopt,
                 "make_unix", nullopt)
    ELSE
    LET anyport == Has(get_port(addr)) /\ Val(get_port(addr)) = 0
        s == IF anyport THEN [mu.s EXCEPT !.ports = acquire(@, pick)] ELSE mu.s
        newaddr == IF anyport THEN set_port(addr, pick) ELSE addr
        port == IF anyport THEN Some(pick) ELSE get_port(addr)
        acq == IF anyport THEN Some(pick) ELSE nullopt
        newpath == format_sockpath(path, addr, s.type)
    IN  IF bind_is_duplicate(s, paths, newpath)
        THEN bind_blackhole(s, paths, fsys, bh, port, newaddr, newpath, mu.real, acq, f)
        ELSE bind_own(s, paths, fsys, port, newaddr, newpath, mu.real, acq, f)

\* Socket::bind
bind(s0, paths, fsys, addr, path, pick, bh, f) ==
    LET mu == make_unix(s0, FALSE, f) IN
    IF ~mu.ok
    THEN Outcome(mu.s, paths, fsys, -1, "sys", mu.real, {}, nullopt, nullopt,
                 "make_unix", nullopt)
    ELSE
    LET anyport == Has(get_port(addr)) /\ Val(get_port(addr)) = 0
        s == IF anyport THEN [mu.s EXCEPT !.ports = acquire(@, pick)] ELSE mu.s
        newaddr == IF anyport THEN set_port(addr, pick) ELSE addr
        port == IF anyport THEN Some(pick) ELSE get_port(addr)
        acq == IF anyport THEN Some(pick) ELSE nullopt
        newpath == format_sockpath(path, newaddr, s.type)
    IN  IF bind_is_duplicate(s, paths, newpath)
        THEN bind_blackhole(s, paths, fsys, bh, port, newaddr, newpath, mu.real, acq, f)
        ELSE bind_own(s, paths, fsys, port, newaddr, newpath, mu.real, acq, f)

----------------------------------------------------------------------------
(* Socket::close                                                           *)

\* socket.cc:556: close unlinks the path and erases it from the path registry.
close_owns_path(s) == Has(s.sockpath) /\ s.bound /\ ~s.is_blackhole

close(s, paths, fsys, f) ==
    IF s.activated
    THEN Outcome(s, paths, fsys, 0, "keep", {}, {}, nullopt, nullopt,
                 "activated", nullopt)
    ELSE LET ret == IF f = "close" THEN -1 ELSE 0
             errno == IF f = "close" THEN "sys" ELSE "keep"
         IN  IF close_owns_path(s)
             THEN Outcome([s EXCEPT !.sockpath = nullopt],
                          paths \ {Val(s.sockpath)}, fsys \ {Val(s.sockpath)},
                          ret, errno, {"close"}, {Val(s.sockpath)}, nullopt,
                          s.sockpath, "unlinked", nullopt)
             ELSE Outcome(s, paths, fsys, ret, errno, {"close"}, {}, nullopt,
                          nullopt, "plain", nullopt)

----------------------------------------------------------------------------
(* Socket::rewrite_dest and Socket::connect                                *)

\* Result of rewrite_dest: the Socket, the files, the destination (optional).
Rewritten(s, fsys, dest, real, unl, acq, note) ==
    [ s |-> s, fs |-> fsys, dest |-> dest, real |-> real, unl |-> unl,
      acq |-> acq, note |-> note ]

\* Variant of implicit_binding that lets go of the blackhole once the
\* descriptor is bound.
implicit_binding_DropHandle(s, fsys, addr, destpath, pick, bh, real, f) ==
    IF ~Has(bh)
    THEN Rewritten(s, fsys, nullopt, real, {}, nullopt, "no blackhole")
    ELSE IF ~Has(unix(Val(bh)))
    THEN Rewritten(s, fsys, nullopt, real, {Val(bh)}, nullopt, "no blackhole")
    ELSE IF ~real_bind_ok(s, Val(bh), fsys, f)
    THEN Rewritten(s, fsys, nullopt, real \cup {"bind"}, {Val(bh)}, nullopt,
                   "bind failed")
    ELSE LET s1 == [s EXCEPT !.kpath = bh]
             cb == create_binding(s1, addr, pick, f)
         IN  IF ~cb.ok
             THEN Rewritten(cb.s, fsys \ {Val(bh)}, nullopt, real \cup {"bind"},
                            {Val(bh)}, cb.acq, "no binding")
             ELSE Rewritten([cb.s EXCEPT !.is_blackhole = TRUE],
                            fsys \ {Val(bh)}, destpath, real \cup {"bind"},
                            {Val(bh)}, cb.acq, "implicit binding")

\* socket.cc:524-542: the implicit blackhole binding of a datagram Socket.
implicit_binding(s, fsys, addr, destpath, pick, bh, real, f) ==
    IF ~Has(bh)
    THEN Rewritten(s, fsys, nullopt, real, {}, nullopt, "no blackhole")
    ELSE IF ~Has(unix(Val(bh)))
    THEN Rewritten(s, fsys, nullopt, real, {Val(bh)}, nullopt, "no blackhole")
    ELSE IF ~real_bind_ok(s, Val(bh), fsys, f)
    THEN Rewritten(s, fsys, nullopt, real \cup {"bind"}, {Val(bh)}, nullopt,
                   "bind failed")
    ELSE LET s1 == [s EXCEPT !.kpath = bh]
             cb == create_binding(s1, addr, pick, f)
         IN  IF ~cb.ok
             THEN Rewritten(cb.s, fsys \ {Val(bh)}, nullopt, real \cup {"bind"},
                            {Val(bh)}, cb.acq, "no binding")
             ELSE Rewritten([cb.s EXCEPT !.is_blackhole = TRUE,
                                          !.blackhole_ref = bh],
                            fsys \cup {Val(bh)}, destpath, real \cup {"bind"}, {},
                            cb.acq, "implicit binding")

rewrite_dest(s0, fsys, addr, path, pick, bh, f) ==
    IF s0.type /= "UDP"
    THEN Rewritten(s0, fsys, nullopt, {}, {}, nullopt, "not udp")
    ELSE
    LET destpath == unix(format_sockpath(path, addr, s0.type)) IN
    IF ~Has(destpath)
    THEN Rewritten(s0, fsys, nullopt, {}, {}, nullopt, "bad path")
    ELSE
    LET mu == make_unix(s0, FALSE, f) IN
    IF ~mu.ok
    THEN Rewritten(mu.s, fsys, nullopt, mu.real, {}, nullopt, "make_unix")
    ELSE IF ~Has(mu.s.binding)
    THEN implicit_binding(mu.s, fsys, addr, destpath, pick, bh, mu.real, f)
    ELSE Rewritten(mu.s, fsys, destpath, mu.real, {}, nullopt, "had binding")

\* The kernel's connect on a UNIX socket: a connected stream cannot connect
\* again, and a stream cannot connect to the path it is itself bound to.
real_connect_ok(s, path, f) ==
    /\ f /= "connect"
    /\ s.type = "UDP" \/ (~s.kconn /\ s.kpath /= Some(path))

\* socket.cc:329-346: datagram Socket without a binding.
connect_implicit(s0, paths, fsys, addr, path, pick, bh, f) ==
    LET rd == rewrite_dest(s0, fsys, addr, path, pick, bh, f) IN
    IF ~Has(rd.dest)
    THEN Outcome(rd.s, paths, rd.fs, -1, "EADDRNOTAVAIL", rd.real, rd.unl, rd.acq,
                 nullopt, rd.note, nullopt)
    ELSE IF ~real_connect_ok(rd.s, Val(rd.dest), f)
    THEN Outcome(rd.s, paths, rd.fs, -1, "sys", rd.real \cup {"connect"}, rd.unl,
                 rd.acq, rd.dest, rd.note, nullopt)
    ELSE Outcome([rd.s EXCEPT !.connection = Some(addr), !.sockpath = rd.dest,
                               !.kconn = TRUE],
                 paths, rd.fs, 0, "keep", rd.real \cup {"connect"}, rd.unl, rd.acq,
                 rd.dest, rd.note, nullopt)

\* socket.cc:348-374: every other Socket.
connect_explicit(s0, paths, fsys, addr, path, pick, f) ==
    LET new_sockpath == format_sockpath(path, addr, s0.type) IN
    IF ~Has(unix(new_sockpath))
    THEN Outcome(s0, paths, fsys, -1, "EFAULT", {}, {}, nullopt, Some(new_sockpath),
                 "bad path", nullopt)
    ELSE
    LET mu == make_unix(s0, FALSE, f) IN
    IF ~mu.ok
    THEN Outcome(mu.s, paths, fsys, -1, "sys", mu.real, {}, nullopt,
                 Some(new_sockpath), "make_unix", nullopt)
    ELSE
    LET remote_port == get_port(addr) IN
    IF ~Has(remote_port)
    THEN Outcome(mu.s, paths, fsys, -1, "EADDRNOTAVAIL", mu.real, {}, nullopt,
                 Some(new_sockpath), "no port", nullopt)
    ELSE IF ~real_connect_ok(mu.s, new_sockpath, f)
    THEN Outcome(mu.s, paths, fsys, -1, "sys", mu.real \cup {"connect"}, {}, nullopt,
                 Some(new_sockpath), "connect failed", nullopt)
    ELSE
    LET s1 == [mu.s EXCEPT !.kconn = TRUE]
        real == mu.real \cup {"connect"}
    IN  IF ~Has(s1.binding)
        THEN LET cb == create_binding(s1, addr, pick, f) IN
             IF ~cb.ok
             THEN Outcome(cb.s, paths, fsys, -1, "EADDRNOTAVAIL", real, {}, cb.acq,
                          Some(new_sockpath), "no binding", nullopt)
             ELSE Outcome([cb.s EXCEPT !.ports = reserve(@, Val(remote_port)),
                                        !.connection = Some(addr),
                                        !.sockpath = Some(new_sockpath)],
                          paths, fsys, 0, "keep", real, {}, cb.acq,
                          Some(new_sockpath), "new binding", nullopt)
        ELSE Outcome([s1 EXCEPT !.connection = Some(addr),
                                !.sockpath = Some(new_sockpath)],
                     paths, fsys, 0, "keep", real, {}, nullopt, Some(new_sockpath),
                     "had binding", nullopt)

connect(s0, paths, fsys, addr, path, pick, bh, f) ==
    IF s0.type = "UDP" /\ ~Has(s0.binding)
    THEN connect_implicit(s0, paths, fsys, addr, path, pick, bh, f)
    ELSE connect_explicit(s0, paths, fsys, addr, path, pick, f)

----------------------------------------------------------------------------
(* Socket::accept                                                          *)

Creds == {"c1", "c2"}
CredHost(cred) == IF cred = "c1" THEN "cred:c1" ELSE "cred:c2"

\* Result of accept: the listening Socket, the child (optional), the return
\* value, errno, the port acquired (optional), the address written (optional).
Accepted(s, child, ret, errno, acq, out) ==
    [ s |-> s, child |-> child, ret |-> ret, errno |-> errno, acq |-> acq,
      out |-> out ]

\* socket.cc:421-426: the child Socket.
accept_child(s, id, sockfd, local_addr, local_port, peer) ==
    [NewSocket(id, sockfd, s.typearg) EXCEPT
        !.ports = reserve(@, local_port),
        !.binding = Some(local_addr),
        !.connection = Some(peer),
        !.kpath = s.kpath,
        !.kconn = TRUE]

\* Variant of accept that does not look at the binding before it acquires
\* the peer's port.
accept_NoCheck(s, sockfd, id, pick, cred, f) ==
    LET local_addr == IF Has(s.binding) THEN Val(s.binding) ELSE EmptyAddr
        host == IF is_loopback(local_addr) THEN Val(local_addr.host) ELSE CredHost(cred)
        s1 == [s EXCEPT !.ports = acquire(@, pick)]
        peer == set_port(set_host(EmptyAddr, host), pick)
    IN  IF ~Has(get_port(local_addr))
        THEN Accepted(s1, nullopt, -1, "EINVAL", Some(pick), nullopt)
        ELSE Accepted(s1,
                      Some(accept_child(s, id, sockfd, local_addr,
                                        Val(get_port(local_addr)), peer)),
                      sockfd, "keep", Some(pick), Some(peer))

\* Socket::accept with the descriptor sockfd the real accept returned; id is
\* the identity of the child, pick the port ports.acquire() returns, cred the
\* peer's credentials.
accept(s, sockfd, id, pick, cred, f) ==
    IF ~Has(s.binding)
    THEN Accepted(s, nullopt, -1, "EINVAL", nullopt, nullopt)
    ELSE
    LET local_addr == Val(s.binding)
        local_port == get_port(local_addr)
    IN
    IF ~Has(local_port)
    THEN Accepted(s, nullopt, -1, "EINVAL", nullopt, nullopt)
    ELSE IF is_loopback(local_addr) /\ f = "set_host"
    THEN Accepted(s, nullopt, -1, "EADDRNOTAVAIL", nullopt, nullopt)
    ELSE IF ~is_loopback(local_addr) /\ f = "getsockopt"
    THEN Accepted(s, nullopt, -1, "sys", nullopt, nullopt)
    ELSE IF ~is_loopback(local_addr) /\ f = "set_host"
    THEN Accepted(s, nullopt, -1, "EINVAL", nullopt, nullopt)
    ELSE
    LET host == IF is_loopback(local_addr) THEN Val(local_addr.host) ELSE CredHost(cred)
        s1 == [s EXCEPT !.ports = acquire(@, pick)]
        peer == set_port(set_host(EmptyAddr, host), pick)
    IN  IF f = "set_port"
        THEN Accepted(s1, nullopt, -1, "EINVAL", Some(pick), nullopt)
        ELSE Accepted(s1,
                      Some(accept_child(s, id, sockfd, local_addr, Val(local_port),
                                        peer)),
                      sockfd, "keep", Some(pick), Some(peer))

----------------------------------------------------------------------------
(* Socket::getpeername and Socket::getsockname                             *)

\* Variant of getpeername that reports the binding.
getpeername_Binding(s, paths, fsys) ==
    IF Has(s.binding)
    THEN Outcome(s, paths, fsys, 0, "keep", {}, {}, nullopt, nullopt, "stored",
                 s.binding)
    ELSE Outcome(s, paths, fsys, -1, "EFAULT", {}, {}, nullopt, nullopt, "absent",
                 nullopt)

\* Socket::getpeername
getpeername(s, paths, fsys) ==
    IF Has(s.connection)
    THEN Outcome(s, paths, fsys, 0, "keep", {}, {}, nullopt, nullopt, "stored",
                 s.connection)
    ELSE Outcome(s, paths, fsys, -1, "EFAULT", {}, {}, nullopt, nullopt, "absent",
                 nullopt)

\* Socket::getsockname
getsockname(s, paths, fsys) ==
    IF Has(s.binding)
    THEN Outcome(s, paths, fsys, 0, "keep", {}, {}, nullopt, nullopt, "stored",
                 s.binding)
    ELSE Outcome(s, paths, fsys, -1, "EFAULT", {}, {}, nullopt, nullopt, "absent",
                 nullopt)

----------------------------------------------------------------------------
(* Socket::rewrite_src                                                     *)

RandHosts == {"rand:1", "rand:2"}
PeerPaths == { <<"p">>, <<"q">> }

\* Result of rewrite_src: the Socket, the return value, the address written
\* (optional), the port acquired (optional).
Rewrote(s, ok, out, acq, note) ==
    [ s |-> s, ok |-> ok, out |-> out, acq |-> acq, note |-> note ]

\* Variant that updates only one of the two maps.
peermap_put_OneWay(s, peer, path) ==
    [s EXCEPT !.peermap = (peer :> path) @@ @]

\* socket.cc:484-485: both directions of the peer map.
peermap_put(s, peer, path) ==
    [s EXCEPT !.peermap = (peer :> path) @@ @,
              !.revpeermap = (path :> peer) @@ @]

\* Variant of the lookup that never finds the path.
revpeermap_find_Miss(s, path) == nullopt

\* socket.cc:465: lookup of the reported path.
revpeermap_find(s, path) ==
    IF path \in DOMAIN s.revpeermap THEN Some(s.revpeermap[path]) ELSE nullopt

rewrite_src(s, real_path, pick, rnd, f) ==
    IF ~Has(s.binding) THEN Rewrote(s, TRUE, nullopt, nullopt, "no binding")
    ELSE IF ~Has(real_path) THEN Rewrote(s, TRUE, nullopt, nullopt, "no path")
    ELSE
    LET found == revpeermap_find(s, Val(real_path)) IN
    IF Has(found) THEN Rewrote(s, TRUE, found, nullopt, "found")
    ELSE
    LET s1 == [s EXCEPT !.ports = acquire(@, pick)]
        host == IF is_loopback(Val(s.binding)) THEN Val(Val(s.binding).host) ELSE rnd
        peer == set_host(set_port(EmptyAddr, pick), host)
    IN  IF f = "set_host"
        THEN Rewrote(s1, FALSE, nullopt, Some(pick), "failed")
        ELSE Rewrote(peermap_put(s1, peer, Val(real_path)), TRUE, Some(peer),
                     Some(pick), "new")

----------------------------------------------------------------------------
(* The state machine: one action per public operation of Socket.  Each     *)
(* action includes the destruction of a Socket whose last reference the    *)
(* operation drops.  last records which call was made and what it          *)
(* returned; detail records errno, the real calls made, the paths unlinked *)
(* and the addresses written, in the specifications that ask for it (rec). *)

Last(op, fd, ret, note) == [ op |-> op, fd |-> fd, ret |-> ret, note |-> note ]

Detail(errno, real, unl, dunl, path, out, arg) ==
    [ errno |-> errno, real |-> real, unl |-> unl, dunl |-> dunl, path |-> path,
      out |-> out, arg |-> arg ]

\* A thread that is in no intercepted call.
Threads == 1..NumThreads
Idle == [pc |-> "idle", fd |-> 0, aux |-> 0, torn |-> FALSE]
NoAccess == [t |-> 0, obj |-> "none", kind |-> "none", held |-> TRUE, torn |-> FALSE]

NoDetail == Detail("keep", {}, {}, {}, nullopt, nullopt, nullopt)

\* No format_sockpath call on its own, and no launcher, in this process.
NoFormat == [path |-> <<>>, addr |-> EmptyAddr, type |-> "INVALID", out |-> nullopt]
NoMain == [pc |-> "none"]

InitSocket ==
    /\ registry = EmptyMap
    /\ sockpath_registry = {}
    /\ fs = {}
    /\ nextId = 1
    /\ lastReg = [fd \in Fds |-> 0]
    /\ last = Last("init", 0, 0, "")
    /\ detail = NoDetail
    /\ peerlog = [called |-> {}, first |-> EmptyMap]
    /\ optlog = EmptyMap
    /\ acclog = {}
    /\ registry_mutex = 0
    /\ thr = [t \in Threads |-> Idle]
    /\ busy = [registry |-> {}, sockpath_registry |-> {}]
    /\ acc = NoAccess

Init ==
    /\ InitSocket
    /\ fmt = NoFormat
    /\ cli = NoMain

\* ports.acquire() returns a port of the ephemeral range that is not reserved.
\* A call that reaches acquire() with every port reserved is outside the model.
AcquireOk(s, acq) == Has(acq) => Val(acq) \in EphPorts \ s.ports

MinOf(S) == CHOOSE x \in S : \A y \in S : x <= y

\* The ports acquire() may return to the Socket at fd: any free port of the
\* range (anyfree), or the lowest free one.
PickChoices(fd, anyfree) ==
    LET free == IF fd \in DOMAIN registry THEN EphPorts \ registry[fd].ports ELSE {}
    IN  IF free = {} THEN {0} ELSE IF anyfree THEN free ELSE {MinOf(free)}

\* What BlackHole::get_path can return: absent, or a path that does not exist.
BhChoices == {nullopt} \cup {Some(p) : p \in BhPaths \ fs}

Record(rec, d) == detail' = IF rec THEN d ELSE detail

\* History of the rewrite_src calls made on a Socket that has a binding: the
\* paths reported so far, and the first address written for each.
PeerLog(op, s, o) ==
    IF op = "rewrite_src" /\ Has(s.binding) /\ Has(o.path)
    THEN LET key == <<s.id, Val(o.path)>> IN
         [ called |-> peerlog.called \cup {key},
           first |-> IF Has(o.out) /\ key \notin DOMAIN peerlog.first
                     THEN (key :> Val(o.out)) @@ peerlog.first
                     ELSE peerlog.first ]
    ELSE peerlog

\* History of the setsockopt and ioctl calls on a Socket: the calls that
\* returned 0 while the Socket was not UNIX yet, in call order.
OptLog(op, s, o, arg) ==
    IF op \in {"setsockopt", "ioctl"} /\ o.ret = 0 /\ ~s.is_unix
    THEN (s.id :> Append(IF s.id \in DOMAIN optlog THEN optlog[s.id] ELSE <<>>,
                         <<op, arg>>)) @@ optlog
    ELSE optlog

\* The effect of a call on the Socket at fd that stays registered.  arg is
\* the argument of the call (an address, an option, a request), if any.
Apply(op, fd, o, arg, rec) ==
    /\ AcquireOk(registry[fd], o.acq)
    /\ registry' = RegistryPut(registry, fd, o.s)
    /\ sockpath_registry' = o.paths
    /\ fs' = o.fs
    /\ last' = Last(op, fd, o.ret, o.note)
    /\ UNCHANGED <<tvars, avars>>
    /\ Record(rec, Detail(o.errno, o.real, o.unl, {}, o.path, o.out, arg))
    /\ peerlog' = PeerLog(op, registry[fd], o)
    /\ optlog' = OptLog(op, registry[fd], o, arg)
    /\ UNCHANGED acclog
    /\ UNCHANGED <<nextId, lastReg>>

\* Socket::create
Create(fd, stype, rec) ==
    /\ registry' = RegistryPut(registry, fd, NewSocket(nextId, fd, stype))
    /\ fs' = fs \ ReplacedUnlinks(registry, fd)
    /\ nextId' = nextId + 1
    /\ lastReg' = [lastReg EXCEPT ![fd] = nextId]
    /\ last' = Last("create", fd, fd, IF fd \in DOMAIN registry THEN "replaced" ELSE "new")
    /\ UNCHANGED <<tvars, avars>>
    /\ Record(rec, Detail("keep", {}, ReplacedUnlinks(registry, fd),
                          ReplacedUnlinks(registry, fd), nullopt, nullopt, nullopt))
    /\ UNCHANGED <<sockpath_registry, peerlog, optlog, acclog>>

Blackhole(fd, rec) ==
    /\ fd \in DOMAIN registry
    /\ ~registry[fd].is_blackhole
    /\ registry' = RegistryPut(registry, fd, blackhole(registry[fd]))
    /\ last' = Last("blackhole", fd, 0, "")
    /\ UNCHANGED <<tvars, avars>>
    /\ Record(rec, NoDetail)
    /\ UNCHANGED <<sockpath_registry, fs, nextId, lastReg, peerlog, optlog, acclog>>

Setsockopt(fd, opt, f, rec) ==
    /\ fd \in DOMAIN registry
    /\ Apply("setsockopt", fd,
             setsockopt(registry[fd], sockpath_registry, fs, opt, f), Some(opt), rec)

Ioctl(fd, req, f, rec) ==
    /\ fd \in DOMAIN registry
    /\ Apply("ioctl", fd, ioctl(registry[fd], sockpath_registry, fs, req, f),
             Some(req), rec)

Activate(fd, addr, f, rec) ==
    /\ fd \in DOMAIN registry
    /\ Apply("activate", fd,
             activate(registry[fd], sockpath_registry, fs, addr, f), Some(addr), rec)

\* The outcomes of a call for every input, every port acquire() may return,
\* every path the blackhole may get and every step that may fail.
Bind(fd, addrs, paths, anyfree, fails, rec) ==
    /\ fd \in DOMAIN registry
    /\ \E addr \in addrs :
       \E o \in { bind(registry[fd], sockpath_registry, fs, addr, path, pick, bh, f) :
                  path \in paths, pick \in PickChoices(fd, anyfree),
                  bh \in BhChoices, f \in fails } :
          Apply("bind", fd, o, Some(addr), rec)

Connect(fd, addrs, paths, anyfree, fails, rec) ==
    /\ fd \in DOMAIN registry
    /\ \E addr \in addrs :
       \E o \in { connect(registry[fd], sockpath_registry, fs, addr, path, pick, bh, f) :
                  path \in paths, pick \in PickChoices(fd, anyfree),
                  bh \in BhChoices, f \in fails } :
          Apply("connect", fd, o, Some(addr), rec)

\* sendto / sendmsg
RewriteDest(fd, addrs, paths, anyfree, fails, rec) ==
    /\ fd \in DOMAIN registry
    /\ \E addr \in addrs :
       \E rd \in { rewrite_dest(registry[fd], fs, addr, path, pick, bh, f) :
                   path \in paths, pick \in PickChoices(fd, anyfree),
                   bh \in BhChoices, f \in fails } :
          Apply("rewrite_dest", fd,
                Outcome(rd.s, sockpath_registry, rd.fs, IF Has(rd.dest) THEN 0 ELSE -1,
                        "keep", rd.real, rd.unl, rd.acq, rd.dest, rd.note, nullopt),
                Some(addr), rec)

\* recvfrom / recvmsg
RewriteSrc(fd, real_paths, anyfree, fails, rec) ==
    /\ fd \in DOMAIN registry
    /\ \E real_path \in real_paths :
       \E rs \in { rewrite_src(registry[fd], real_path, pick, rnd, f) :
                   pick \in PickChoices(fd, anyfree), rnd \in RandHosts, f \in fails } :
          Apply("rewrite_src", fd,
                Outcome(rs.s, sockpath_registry, fs, IF rs.ok THEN 0 ELSE -1, "keep",
                        {}, {}, rs.acq, real_path, rs.note, rs.out),
                real_path, rec)

Getpeername(fd, rec) ==
    /\ fd \in DOMAIN registry
    /\ Apply("getpeername", fd, getpeername(registry[fd], sockpath_registry, fs),
             nullopt, rec)

Getsockname(fd, rec) ==
    /\ fd \in DOMAIN registry
    /\ Apply("getsockname", fd, getsockname(registry[fd], sockpath_registry, fs),
             nullopt, rec)

\* Socket::accept with the descriptor the real accept returned.
Accept(fd, sockfd, pick, cred, f, rec) ==
    /\ fd \in DOMAIN registry
    /\ sockfd /= fd
    /\ LET ac == accept(registry[fd], sockfd, nextId, pick, cred, f)
           reg1 == RegistryPut(registry, fd, ac.s)
       IN  /\ AcquireOk(registry[fd], ac.acq)
           /\ IF Has(ac.child)
              THEN /\ registry' = RegistryPut(reg1, sockfd, Val(ac.child))
                   /\ fs' = fs \ ReplacedUnlinks(registry, sockfd)
                   /\ nextId' = nextId + 1
                   /\ lastReg' = [lastReg EXCEPT ![sockfd] = nextId]
                   /\ last' = Last("accept", fd, ac.ret, "child")
                   /\ UNCHANGED <<tvars, avars>>
                   /\ acclog' = acclog \cup {<<registry[fd].id, Val(ac.acq)>>}
                   /\ Record(rec, Detail(ac.errno, {}, ReplacedUnlinks(registry, sockfd),
                                         ReplacedUnlinks(registry, sockfd), nullopt,
                                         ac.out, Some(sockfd)))
              ELSE /\ registry' = reg1
                   /\ last' = Last("accept", fd, ac.ret, "failed")
                   /\ UNCHANGED <<tvars, avars>>
                   /\ Record(rec, Detail(ac.errno, {}, {}, {}, nullopt, ac.out,
                                         Some(sockfd)))
                   /\ UNCHANGED <<fs, nextId, lastReg, acclog>>
           /\ UNCHANGED <<sockpath_registry, peerlog, optlog>>

\* Socket::close, then ~Socket once the caller's reference is gone.
Close(fd, f, rec) ==
    /\ fd \in DOMAIN registry
    /\ LET o == close(registry[fd], sockpath_registry, fs, f) IN
       /\ registry' = RegistryErase(registry, fd)
       /\ sockpath_registry' = o.paths
       /\ fs' = o.fs \ DtorUnlinks(o.s)
       /\ lastReg' = [lastReg EXCEPT ![fd] = 0]
       /\ last' = Last("close", fd, o.ret, o.note)
       /\ UNCHANGED <<tvars, avars>>
       /\ Record(rec, Detail(o.errno, o.real, o.unl \cup DtorUnlinks(o.s),
                             DtorUnlinks(o.s), o.path, nullopt, nullopt))
       /\ UNCHANGED <<nextId, peerlog, optlog, acclog>>

MakeUnixFails == {"socket", "replay", "dup2"}
BindFails == MakeUnixFails \cup {"bind"}
ConnectFails == MakeUnixFails \cup {"set_port", "set_host", "bind", "connect"}
RewriteDestFails == MakeUnixFails \cup {"set_port", "set_host", "bind"}
SockOpts == {"SO_REUSEADDR"}
IoctlReqs == {"FIONBIO"}
SockTypeArgs == {"SOCK_STREAM", "SOCK_DGRAM"}

\* The steps of a call that may fail, restricted to the failures a
\* specification considers.
FailsOf(fails, points) == {"none"} \cup (fails \cap points)

----------------------------------------------------------------------------
(* Spec: the registry and the path registry under create, blackhole, bind, *)
(* connect, accept and close on NumFds descriptors.  The allocator hands   *)
(* out the lowest free port, and only the underlying bind and connect may  *)
(* fail.                                                                   *)

CoreAddrs == {MkAddr(Loopback, 1)}
CoreTemplates == { <<"s">>, <<"%", "p">> }
CoreFails == {"bind", "connect"}

Next ==
    \/ \E fd \in Fds, stype \in SockTypeArgs :
          nextId <= MaxSockets /\ Create(fd, stype, FALSE)
    \/ \E fd \in Fds : Blackhole(fd, FALSE)
    \/ \E fd \in Fds :
          Bind(fd, CoreAddrs, CoreTemplates, FALSE, FailsOf(CoreFails, BindFails), FALSE)
    \/ \E fd \in Fds :
          Connect(fd, CoreAddrs, CoreTemplates, FALSE, FailsOf(CoreFails, ConnectFails),
                  FALSE)
    \/ \E fd \in Fds : \E sockfd \in Fds, pick \in PickChoices(fd, FALSE),
          f \in FailsOf(CoreFails, {"set_port", "set_host", "getsockopt"}) :
          nextId <= MaxSockets /\ Accept(fd, sockfd, pick, "c1", f, FALSE)
    \/ \E fd \in Fds, f \in FailsOf(CoreFails, {"close"}) : Close(fd, f, FALSE)

Spec == Init /\ [][Next]_vars

----------------------------------------------------------------------------
(* SpecSock: every operation except rewrite_src on the Socket of one       *)
(* descriptor (the children it accepts are registered at the others), with *)
(* every failure of every step; the details of each call are recorded.     *)

SockAddrs == {MkAddr(Loopback, 1)}
SockTemplates == { <<"%", "p">> }
SockFails == MakeUnixFails \cup {"set_port", "set_host", "setsockopt", "ioctl", "bind",
                                 "close", "connect", "getsockopt"}

NextSock ==
    \/ \E fd \in {1}, stype \in SockTypeArgs :
          nextId <= MaxObjects /\ Create(fd, stype, TRUE)
    \/ \E fd \in {1} : Blackhole(fd, TRUE)
    \/ \E fd \in {1}, opt \in SockOpts, f \in FailsOf(SockFails, {"setsockopt"}) :
          /\ fd \in DOMAIN registry
          /\ registry[fd].is_unix \/ Len(registry[fd].sockopts) < MaxOpts
          /\ Setsockopt(fd, opt, f, TRUE)
    \/ \E fd \in {1}, req \in IoctlReqs, f \in FailsOf(SockFails, {"ioctl"}) :
          /\ fd \in DOMAIN registry
          /\ registry[fd].is_unix \/ Len(registry[fd].sockopts) < MaxOpts
          /\ Ioctl(fd, req, f, TRUE)
    \/ \E fd \in {1}, addr \in SockAddrs, f \in FailsOf(SockFails, MakeUnixFails) :
          Activate(fd, addr, f, TRUE)
    \/ \E fd \in {1} :
          Bind(fd, SockAddrs, SockTemplates, FALSE, FailsOf(SockFails, BindFails), TRUE)
    \/ \E fd \in {1} :
          Connect(fd, SockAddrs, SockTemplates, FALSE, FailsOf(SockFails, ConnectFails),
                  TRUE)
    \/ \E fd \in {1} :
          RewriteDest(fd, SockAddrs, SockTemplates, FALSE,
                      FailsOf(SockFails, RewriteDestFails), TRUE)
    \/ \E fd \in {1} : \E sockfd \in Fds, pick \in PickChoices(fd, FALSE), cred \in Creds,
          f \in FailsOf(SockFails, {"set_port", "set_host", "getsockopt"}) :
          nextId <= MaxObjects /\ Accept(fd, sockfd, pick, cred, f, TRUE)
    \/ \E fd \in {1}, f \in FailsOf(SockFails, {"close"}) : Close(fd, f, TRUE)

SpecSock == Init /\ [][NextSock]_vars

----------------------------------------------------------------------------
(* SpecPeer: rewrite_src on the Socket of one descriptor, which gets its   *)
(* binding from bind or activate, with every port the allocator   *)
(* may return, every random host and every failure.                        *)

PeerAddrs == {MkAddr(Loopback, 1), MkAddr(Remote, 1)}
PeerTemplates == { <<"s">> }
ReportedPaths == {nullopt} \cup {Some(p) : p \in PeerPaths}

NextPeer ==
    \/ \E fd \in {1}, stype \in SockTypeArgs :
          nextId <= MaxPeerObjects /\ Create(fd, stype, TRUE)
    \/ \E fd \in {1}, addr \in PeerAddrs : Activate(fd, addr, "none", TRUE)
    \/ \E fd \in {1} : Bind(fd, PeerAddrs, PeerTemplates, TRUE, {"none"}, TRUE)
    \/ \E fd \in {1} :
          RewriteSrc(fd, ReportedPaths, TRUE, {"set_host", "none"}, TRUE)
    \/ \E fd \in {1} : Close(fd, "none", TRUE)

SpecPeer == Init /\ [][NextPeer]_vars

----------------------------------------------------------------------------
(* SpecOpt: the option cache of one Socket: setsockopt and ioctl calls     *)
(* that succeed or fail, before and after bind or activate make the Socket *)
(* UNIX (which may fail at every step of make_unix).                       *)

CachedOpts == {"SO_REUSEADDR", "SO_KEEPALIVE"}

OptCallAllowed(fd) ==
    /\ fd \in DOMAIN registry
    /\ registry[fd].is_unix \/ Len(registry[fd].sockopts) < MaxCached

NextOpt ==
    \/ \E fd \in {1}, stype \in SockTypeArgs :
          nextId <= MaxOptObjects /\ Create(fd, stype, TRUE)
    \/ \E fd \in {1}, opt \in CachedOpts, f \in {"setsockopt", "none"} :
          OptCallAllowed(fd) /\ Setsockopt(fd, opt, f, TRUE)
    \/ \E fd \in {1}, req \in IoctlReqs, f \in {"ioctl", "none"} :
          OptCallAllowed(fd) /\ Ioctl(fd, req, f, TRUE)
    \/ \E fd \in {1}, addr \in SockAddrs, f \in FailsOf(SockFails, MakeUnixFails) :
          Activate(fd, addr, f, TRUE)
    \/ \E fd \in {1} :
          Bind(fd, SockAddrs, SockTemplates, FALSE, FailsOf(SockFails, BindFails), TRUE)
    \/ \E fd \in {1} : Close(fd, "none", TRUE)

SpecOpt == Init /\ [][NextOpt]_vars

----------------------------------------------------------------------------
(* SpecAddr: the addresses one Socket stores and reports: bind and         *)
(* connect with a zero port, a port of the ephemeral range and a            *)
(* non-loopback host, every port the allocator may return, getsockname and  *)
(* getpeername.                                                             *)

AddrAddrs == {MkAddr(Loopback, 0), MkAddr(Loopback, EphLo), MkAddr(Remote, 1)}
AddrTemplates == { <<"%", "p">> }

NextAddr ==
    \/ \E fd \in {1}, stype \in SockTypeArgs :
          nextId <= MaxAddrObjects /\ Create(fd, stype, TRUE)
    \/ \E fd \in {1} : Blackhole(fd, TRUE)
    \/ \E fd \in {1} :
          Bind(fd, AddrAddrs, AddrTemplates, TRUE, {"bind", "none"}, TRUE)
    \/ \E fd \in {1} :
          Connect(fd, AddrAddrs, AddrTemplates, TRUE, {"connect", "none"}, TRUE)
    \/ \E fd \in {1} : Getsockname(fd, TRUE)
    \/ \E fd \in {1} : Getpeername(fd, TRUE)

SpecAddr == Init /\ [][NextAddr]_vars

----------------------------------------------------------------------------
(* SpecAccept: accept on a listening Socket that has no binding, was bound  *)
(* by bind or was activated, with every port the allocator may return and   *)
(* different peer credentials; the children are registered at the other     *)
(* descriptor.                                                              *)

AcceptAddrs == {MkAddr(Loopback, EphLo), MkAddr(Remote, 1)}

NextAccept ==
    \/ \E fd \in {1} :
          nextId = 1 /\ Create(fd, "SOCK_STREAM", TRUE)
    \/ \E fd \in {1}, addr \in AcceptAddrs : Activate(fd, addr, "none", TRUE)
    \/ \E fd \in {1} :
          Bind(fd, AcceptAddrs, AddrTemplates, TRUE, {"none"}, TRUE)
    \/ \E fd \in {1} : \E sockfd \in Fds, pick \in PickChoices(fd, TRUE), cred \in Creds :
          nextId <= MaxAcceptObjects /\ Accept(fd, sockfd, pick, cred, "none", TRUE)
    \/ \E fd \in Fds : Getpeername(fd, TRUE)

SpecAccept == Init /\ [][NextAccept]_vars

----------------------------------------------------------------------------
(* SpecFormat: format_sockpath on its own.  The initial state draws the    *)
(* template (every string of at most MaxTemplateLen characters over the    *)
(* placeholder letters, one other letter and one separator), the address   *)
(* (host and port present or absent, a port of two digits) and the type of *)
(* the Socket; the only step is the call.                                  *)

FormatTemplates ==
    UNION { [1..n -> {"/", "%", "p", "x", "t", "a"}] : n \in 0..MaxTemplateLen }

FormatAddrs ==
    { [host |-> h, port |-> p] : h \in {nullopt, Some(Loopback), Some(Remote)},
                                 p \in {nullopt, Some(0), Some(12)} }

InitFormat ==
    /\ InitSocket
    /\ fmt \in { [path |-> path, addr |-> addr, type |-> type, out |-> nullopt] :
                    path \in FormatTemplates, addr \in FormatAddrs,
                    type \in {"TCP", "UDP", "INVALID"} }
    /\ cli = NoMain

FormatSockpath ==
    /\ ~Has(fmt.out)
    /\ fmt' = [fmt EXCEPT !.out = Some(format_sockpath(fmt.path, fmt.addr, fmt.type))]
    /\ UNCHANGED <<registry, sockpath_registry, fs, nextId, lastReg, cli>>
    /\ UNCHANGED <<last, detail, peerlog, optlog, acclog, tvars>>

NextFormat == FormatSockpath

SpecFormat == InitFormat /\ [][NextFormat]_vars

----------------------------------------------------------------------------
(* SpecMain: the launcher (src/src/ip2unix.cc).  The initial state draws   *)
(* the command line: at most MaxArgs words, each an option that getopt     *)
(* knows (with an argument that parses as rules, or one that does not), a  *)
(* word getopt rejects ("?": an unknown option or a missing argument), the *)
(* terminator "--" or a word that is no option ("prog").  The steps are    *)
(* the iterations of the option loop, the checks after it, the parsing of  *)
(* the rules, and run_preload with a readlink and an execvpe that succeed  *)
(* or fail.                                                                *)

Words ==
    { [opt |-> o, arg |-> ""] : o \in {"--", "v", "h", "p", "c", "V", "?", "prog"} }
    \cup { [opt |-> o, arg |-> a] : o \in {"f", "F", "r"}, a \in {"good", "bad"} }

CommandLines == UNION { [1..n -> Words] : n \in 0..MaxArgs }

\* parse_rule_arg and parse_rules return a value for this text.
Parses(arg) == arg = "good"

\* main at its first statement (ip2unix.cc:84-105); optind is 1-based here.
MainStart(argv) ==
    [ pc |-> "getopt", argv |-> argv, optind |-> 1,
      check_only |-> FALSE, show_rules |-> FALSE, verbosity |-> 0,
      rule_args |-> <<>>, rulefile |-> nullopt, ruledata |-> nullopt,
      rules |-> <<>>, printed |-> "none", usage |-> "none",
      LD_PRELOAD |-> nullopt, IP2UNIX_RULES |-> nullopt,
      IP2UNIX_VERBOSITY |-> nullopt,
      ran |-> FALSE, image |-> nullopt, status |-> nullopt ]

InitMain ==
    /\ InitSocket
    /\ fmt = NoFormat
    /\ cli \in { MainStart(argv) : argv \in CommandLines }

\* return from main with the given status.
Exit(m, status, usage) ==
    [m EXCEPT !.pc = "exit", !.status = Some(status), !.usage = usage]

\* One iteration of the option loop (ip2unix.cc:107-147).  The + of the
\* option string stops the scan at the first word that is no option.
main_getopt ==
    /\ cli.pc = "getopt"
    /\ cli' =
         IF cli.optind > Len(cli.argv) \/ cli.argv[cli.optind].opt = "prog"
         THEN [cli EXCEPT !.pc = "sources"]
         ELSE LET w == cli.argv[cli.optind]
                  m == [cli EXCEPT !.optind = @ + 1]
              IN  CASE w.opt = "--" -> [m EXCEPT !.pc = "sources"]
                    [] w.opt = "h" -> Exit(m, "EXIT_SUCCESS", "stdout")
                    [] w.opt = "V" -> Exit(m, "EXIT_SUCCESS", "none")
                    [] w.opt = "c" -> [m EXCEPT !.check_only = TRUE]
                    [] w.opt = "p" -> [m EXCEPT !.show_rules = TRUE]
                    [] w.opt = "r" -> [m EXCEPT !.rule_args = Append(@, w.arg)]
                    [] w.opt = "f" -> [m EXCEPT !.rulefile = Some(w.arg)]
                    [] w.opt = "F" -> [m EXCEPT !.ruledata = Some(w.arg)]
                    [] w.opt = "v" -> [m EXCEPT !.verbosity = @ + 1]
                    [] OTHER -> Exit(m, "EXIT_FAILURE", "stderr")
    /\ UNCHANGED <<registry, sockpath_registry, fs, nextId, lastReg, fmt>>
    /\ UNCHANGED <<last, detail, peerlog, optlog, acclog, tvars>>

\* Variant of the conflict test that only rejects -r next to -f or -F.
SourceConflict_DirectOnly(m) ==
    m.rule_args /= <<>> /\ (Has(m.rulefile) \/ Has(m.ruledata))

\* ip2unix.cc:149 and 156: rules were given in more than one way.
SourceConflict(m) ==
    \/ m.rule_args /= <<>> /\ (Has(m.rulefile) \/ Has(m.ruledata))
    \/ Has(m.rulefile) /\ Has(m.ruledata)

\* ip2unix.cc:149-161
main_sources ==
    /\ cli.pc = "sources"
    /\ cli' = IF SourceConflict(cli) THEN Exit(cli, "EXIT_FAILURE", "stderr")
              ELSE [cli EXCEPT !.pc = "parse"]
    /\ UNCHANGED <<registry, sockpath_registry, fs, nextId, lastReg, fmt>>
    /\ UNCHANGED <<last, detail, peerlog, optlog, acclog, tvars>>

\* ip2unix.cc:163-188: the rules, from the one source that was given.
main_parse ==
    /\ cli.pc = "parse"
    /\ cli' =
         IF cli.rule_args /= <<>>
         THEN IF \A i \in 1..Len(cli.rule_args) : Parses(cli.rule_args[i])
              THEN [cli EXCEPT !.pc = "report", !.rules = cli.rule_args]
              ELSE Exit(cli, "EXIT_FAILURE", "none")
         ELSE IF Has(cli.rulefile)
         THEN IF Parses(Val(cli.rulefile))
              THEN [cli EXCEPT !.pc = "report", !.rules = <<Val(cli.rulefile)>>]
              ELSE Exit(cli, "EXIT_FAILURE", "none")
         ELSE IF Has(cli.ruledata)
         THEN IF Parses(Val(cli.ruledata))
              THEN [cli EXCEPT !.pc = "report", !.rules = <<Val(cli.ruledata)>>]
              ELSE Exit(cli, "EXIT_FAILURE", "none")
         ELSE Exit(cli, "EXIT_FAILURE", "stderr")
    /\ UNCHANGED <<registry, sockpath_registry, fs, nextId, lastReg, fmt>>
    /\ UNCHANGED <<last, detail, peerlog, optlog, acclog, tvars>>

\* ip2unix.cc:190-209, up to the call of run_preload.
main_report ==
    /\ cli.pc = "report"
    /\ LET m == IF cli.show_rules
                THEN [cli EXCEPT !.printed = IF cli.check_only THEN "stdout"
                                             ELSE "stderr"]
                ELSE cli
       IN  cli' =
             IF m.check_only THEN Exit(m, "EXIT_SUCCESS", "none")
             ELSE IF Len(m.argv) - (m.optind - 1) >= 1
             THEN [m EXCEPT !.pc = "run_preload",
                            !.IP2UNIX_VERBOSITY =
                                IF m.verbosity > 0 THEN Some(m.verbosity) ELSE @]
             ELSE Exit(m, "EXIT_FAILURE", "stderr")
    /\ UNCHANGED <<registry, sockpath_registry, fs, nextId, lastReg, fmt>>
    /\ UNCHANGED <<last, detail, peerlog, optlog, acclog, tvars>>

\* run_preload (ip2unix.cc:13-42) and the return of main after it.  preload is
\* the value LD_PRELOAD has in the environment, f the step that fails.
run_preload(preload, f) ==
    /\ cli.pc = "run_preload"
    /\ cli' =
         IF f = "readlink"
         THEN [Exit(cli, "EXIT_FAILURE", "none") EXCEPT !.ran = TRUE]
         ELSE LET m == [cli EXCEPT
                          !.ran = TRUE,
                          !.LD_PRELOAD = IF Has(preload) /\ Val(preload) /= ""
                                         THEN Some(<<"self", Val(preload)>>)
                                         ELSE Some(<<"self">>),
                          !.IP2UNIX_RULES = Some(cli.rules)]
              IN  IF f = "execvpe"
                  THEN Exit(m, "EXIT_FAILURE", "none")
                  ELSE [m EXCEPT !.pc = "exec",
                                 !.image = Some(SubSeq(m.argv, m.optind, Len(m.argv)))]
    /\ UNCHANGED <<registry, sockpath_registry, fs, nextId, lastReg, fmt>>
    /\ UNCHANGED <<last, detail, peerlog, optlog, acclog, tvars>>

NextMain ==
    \/ main_getopt
    \/ main_sources
    \/ main_parse
    \/ main_report
    \/ \E preload \in {nullopt, Some(""), Some("lib")},
          f \in {"none", "readlink", "execvpe"} : run_preload(preload, f)

SpecMain == InitMain /\ [][NextMain]_vars

----------------------------------------------------------------------------
(* Properties of the registry and of the path registry (Spec).            *)

\* s bound its path itself: a binding made by bind on the formatted path.
OwnsBinding(s) == s.bound /\ ~s.is_blackhole /\ ~s.activated

\* C1: the registry holds at most one Socket per descriptor, and find(fd)
\* returns the Socket most recently registered for fd by create or accept
\* until close is called on it, and absent after that (and before any
\* registration).
C1_FindMostRecent ==
    /\ DOMAIN registry \subseteq Fds
    /\ \A fd \in Fds :
          /\ Has(find(registry, fd)) <=> lastReg[fd] /= 0
          /\ Has(find(registry, fd)) => Val(find(registry, fd)).id = lastReg[fd]

\* C1 case: a descriptor was registered a second time, so that find must
\* return the later Socket, and another descriptor has just been closed.
C1_Witness ==
    /\ last.op = "close" /\ find(registry, last.fd) = nullopt
    /\ \E fd \in DOMAIN registry :
          /\ lastReg[fd] = MaxSockets
          /\ Val(find(registry, fd)).id = MaxSockets

\* C2 as stated: every registered (not closed) Socket with is_blackhole =
\* false and bound = true, bound by bind, has its sockpath in the path
\* registry.
C2_Orig ==
    \A fd \in DOMAIN registry :
        OwnsBinding(registry[fd]) =>
            /\ Has(registry[fd].sockpath)
            /\ has_sockpath(sockpath_registry, Val(registry[fd].sockpath))

\* C3 as stated: once A has bound the formatted path P itself and B's bind
\* of the same P was sent to a blackhole, closing B leaves P in the file
\* system while A is still open.
C3_Orig ==
    [][ \A a \in DOMAIN registry, b \in DOMAIN registry :
          ( /\ a /= b
            /\ last'.op = "close" /\ last'.fd = b
            /\ OwnsBinding(registry[a])
            /\ registry[b].is_blackhole /\ registry[b].bound
            /\ Has(registry[a].bpath) /\ registry[b].bpath = registry[a].bpath
            /\ registry[a].kpath = registry[a].bpath
            /\ Val(registry[a].bpath) \in fs )
          => Val(registry[a].bpath) \in fs' ]_vars

\* C4: a successful bind on a Socket whose is_blackhole flag is set, or with
\* a template that formats to a path already in the path registry, is made
\* on a fresh blackhole path: afterwards is_blackhole and bound are true and
\* the binding is stored, the path registry is unchanged, and the bind does
\* not set sockpath (it keeps the value it had).
C4_BlackholeBind ==
    [][ \A fd \in DOMAIN registry :
          ( /\ last'.op = "bind" /\ last'.fd = fd /\ last'.ret = 0
            /\ \/ registry[fd].is_blackhole
               \/ has_sockpath(sockpath_registry, Val(registry'[fd].bpath)) )
          => /\ registry'[fd].is_blackhole
             /\ registry'[fd].bound
             /\ Has(registry'[fd].binding)
             /\ sockpath_registry' = sockpath_registry
             /\ registry'[fd].sockpath = registry[fd].sockpath
             /\ Val(registry'[fd].kpath) \in BhPaths \ fs
             /\ registry'[fd].kpath /= registry'[fd].bpath ]_vars

\* C4 case: a bind has just succeeded on a Socket that was not a blackhole
\* before, with a formatted path that another Socket owns.
C4_Witness ==
    /\ last.op = "bind" /\ last.ret = 0
    /\ \E a \in DOMAIN registry :
          /\ a /= last.fd
          /\ OwnsBinding(registry[a])
          /\ registry[a].sockpath = registry[last.fd].bpath
          /\ has_sockpath(sockpath_registry, Val(registry[a].sockpath))
    /\ registry[last.fd].is_blackhole

\* C5 as stated, in the direction from the path registry to the Sockets:
\* every path in the path registry was bound by a Socket that is registered
\* now (no path stays after its owning Socket was closed, destroyed or
\* replaced).
C5_Orig ==
    \A p \in sockpath_registry :
        \E fd \in DOMAIN registry :
            OwnsBinding(registry[fd]) /\ registry[fd].bpath = Some(p)

----------------------------------------------------------------------------
(* Properties of one Socket under every operation and failure (SpecSock).  *)

\* C6 as stated: close on an activated Socket returns 0 without the real
\* close, unlinks no path at all (neither in close nor in the destruction
\* that follows), leaves the path registry unchanged, and removes the Socket
\* from the registry.
C6_Orig ==
    [][ \A fd \in DOMAIN registry :
          (last'.op = "close" /\ last'.fd = fd /\ registry[fd].activated)
          => /\ last'.ret = 0
             /\ "close" \notin detail'.real
             /\ detail'.unl = {}
             /\ fs' = fs
             /\ sockpath_registry' = sockpath_registry
             /\ fd \notin DOMAIN registry' ]_vars

\* C6 (amended): close on an activated Socket returns 0 without the real
\* close, leaves the path registry unchanged, removes the Socket from the
\* registry and does not unlink the Socket's sockpath, in close or in the
\* destruction that follows; the only path the destruction unlinks is the
\* blackhole path of an implicit binding the Socket still holds.
C6_CloseActivated ==
    [][ \A fd \in DOMAIN registry :
          (last'.op = "close" /\ last'.fd = fd /\ registry[fd].activated)
          => /\ last'.ret = 0
             /\ "close" \notin detail'.real
             /\ detail'.unl \subseteq BlackholeDrop(registry[fd])
             /\ fs \ fs' \subseteq BlackholeDrop(registry[fd])
             /\ fs' \subseteq fs
             /\ Has(registry[fd].sockpath) =>
                   /\ Val(registry[fd].sockpath) \notin detail'.unl
                   /\ Val(registry[fd].sockpath) \in fs =>
                         Val(registry[fd].sockpath) \in fs'
             /\ sockpath_registry' = sockpath_registry
             /\ fd \notin DOMAIN registry' ]_vars

\* C6 case: an activated Socket that bound its own path before it was
\* activated has just been closed; the path is still there.
C6_Witness ==
    /\ last.op = "close" /\ last.note = "activated" /\ last.ret = 0
    /\ last.fd \notin DOMAIN registry
    /\ detail.unl = {}
    /\ sockpath_registry /= {}
    /\ sockpath_registry \subseteq fs

\* C7: once is_unix is true of a Socket it stays true whatever is called on
\* it, and a call that reaches make_unix on a Socket that is already UNIX
\* does not fail in make_unix and neither creates nor adopts a socket.
C7_IsUnixStays ==
    [][ \A fd \in DOMAIN registry :
          registry[fd].is_unix =>
             /\ (fd \in DOMAIN registry' /\ registry'[fd].id = registry[fd].id)
                   => registry'[fd].is_unix
             /\ ( /\ last'.fd = fd
                  /\ last'.op \in {"activate", "bind", "rewrite_dest", "connect"} )
                   => /\ last'.note /= "make_unix"
                      /\ detail'.real \cap {"socket", "replay", "close(newfd)", "dup2"}
                            = {} ]_vars

\* C7 case: activate has succeeded on a Socket that was UNIX already (no
\* descriptor was adopted, no option replayed).
C7_Witness ==
    /\ last.op = "activate" /\ last.ret = 0
    /\ detail.real = {}
    /\ registry[last.fd].is_unix /\ registry[last.fd].activated

\* C8: every Socket with activated = true has bound = true and is_unix =
\* true, also after activate on a Socket that was UNIX already and after a
\* make_unix failure inside activate.
C8_ActivatedImplies ==
    \A fd \in DOMAIN registry :
        registry[fd].activated => registry[fd].bound /\ registry[fd].is_unix

\* C8 case: activate has just adopted a descriptor for a Socket that was
\* not UNIX before.
C8_Witness ==
    /\ last.op = "activate" /\ last.ret = 0
    /\ "dup2" \in detail.real
    /\ registry[last.fd].activated

----------------------------------------------------------------------------
(* Properties of the peer maps (SpecPeer).                                *)

\* C9: peermap and revpeermap of every Socket are mutual inverses:
\* peermap[a] = p exactly if revpeermap[p] = a.
C9_MutualInverses ==
    \A fd \in DOMAIN registry :
        LET s == registry[fd] IN
        /\ \A a \in DOMAIN s.peermap :
              /\ s.peermap[a] \in DOMAIN s.revpeermap
              /\ s.revpeermap[s.peermap[a]] = a
        /\ \A p \in DOMAIN s.revpeermap :
              /\ s.revpeermap[p] \in DOMAIN s.peermap
              /\ s.peermap[s.revpeermap[p]] = p

\* C9 case: two remote paths have been rewritten on one Socket.
C9_Witness ==
    \E fd \in DOMAIN registry :
        /\ Cardinality(DOMAIN registry[fd].peermap) = 2
        /\ DOMAIN registry[fd].revpeermap = PeerPaths

\* A rewrite_src call for path p is made on the Socket at fd, which has a
\* binding, in this step.
RewriteSrcStep(fd, p) ==
    /\ last'.op = "rewrite_src" /\ last'.fd = fd
    /\ Has(registry[fd].binding)
    /\ detail'.path = Some(p)

\* What a rewrite_src call on the Socket at fd leaves alone when it neither
\* allocates a port nor adds map entries.
NoNewPeer(fd) ==
    /\ registry'[fd].ports = registry[fd].ports
    /\ registry'[fd].peermap = registry[fd].peermap
    /\ registry'[fd].revpeermap = registry[fd].revpeermap

\* C10 as stated: every call for P writes the address the first call for P
\* wrote, and no call for P after the first allocates a port or adds map
\* entries.
C10_Orig ==
    [][ \A fd \in DOMAIN registry, p \in PeerPaths :
          RewriteSrcStep(fd, p) =>
             LET key == <<registry[fd].id, p>> IN
             /\ Has(detail'.out) =>
                   /\ key \in DOMAIN peerlog'.first
                   /\ Val(detail'.out) = peerlog'.first[key]
             /\ key \in peerlog.called => NoNewPeer(fd) ]_vars

\* C10 (amended): every call for P that writes an address writes the one
\* the first such call wrote; once a call for P has succeeded, every later
\* call for P succeeds, writes that address, allocates no port and adds no
\* map entries; until then every call for P allocates a port, and adds map
\* entries only if it succeeds.
C10_StablePeer ==
    [][ \A fd \in DOMAIN registry, p \in PeerPaths :
          RewriteSrcStep(fd, p) =>
             LET key == <<registry[fd].id, p>> IN
             /\ Has(detail'.out) =>
                   /\ key \in DOMAIN peerlog'.first
                   /\ Val(detail'.out) = peerlog'.first[key]
             /\ key \in DOMAIN peerlog.first =>
                   /\ NoNewPeer(fd)
                   /\ last'.ret = 0
                   /\ detail'.out = Some(peerlog.first[key])
             /\ key \notin DOMAIN peerlog.first =>
                   /\ Cardinality(registry'[fd].ports \ registry[fd].ports) = 1
                   /\ IF last'.ret = 0
                      THEN /\ Has(detail'.out)
                           /\ registry'[fd].revpeermap[p] = Val(detail'.out)
                           /\ registry'[fd].peermap[Val(detail'.out)] = p
                      ELSE /\ ~Has(detail'.out)
                           /\ registry'[fd].peermap = registry[fd].peermap
                           /\ registry'[fd].revpeermap = registry[fd].revpeermap ]_vars

\* C10 case: a path is reported again after another path was rewritten, and
\* an earlier call had failed after it allocated a port.
C10_Witness ==
    /\ last.op = "rewrite_src" /\ last.note = "found" /\ last.ret = 0
    /\ last.fd \in DOMAIN registry
    /\ LET s == registry[last.fd] IN
       /\ DOMAIN s.revpeermap = PeerPaths
       /\ Has(detail.path)
       /\ detail.out = Some(peerlog.first[<<s.id, Val(detail.path)>>])
       /\ \E port \in s.ports \cap EphPorts :
             \A a \in DOMAIN s.peermap : get_port(a) /= Some(port)

----------------------------------------------------------------------------
(* Properties of the option cache (SpecOpt).                               *)

\* The cache entry a logged call stands for.
CacheEntry(call) ==
    <<IF call[1] = "setsockopt" THEN "sockopt" ELSE "ioctl", Val(call[2])>>

\* The calls logged for the Socket s, as cache entries in call order.
Logged(s) ==
    IF s.id \in DOMAIN optlog
    THEN [i \in 1..Len(optlog[s.id]) |-> CacheEntry(optlog[s.id][i])]
    ELSE <<>>

\* C11: as long as a Socket is not UNIX, and so at the moment make_unix
\* replays the cache, the cache is the sequence, in call order, of the
\* setsockopt and ioctl calls that returned 0 while is_unix was false; a
\* failed call appends nothing and a call on a UNIX Socket appends nothing.
C11_CacheIsLog ==
    [][ \A fd \in DOMAIN registry :
          /\ ~registry[fd].is_unix => registry[fd].sockopts = Logged(registry[fd])
          /\ (last'.fd = fd /\ "replay" \in detail'.real)
                => registry[fd].sockopts = Logged(registry[fd])
          /\ ( /\ last'.fd = fd /\ last'.op \in {"setsockopt", "ioctl"}
               /\ (last'.ret /= 0 \/ registry[fd].is_unix) )
                => registry'[fd].sockopts = registry[fd].sockopts ]_vars

\* C11 case: make_unix has just replayed a cache of two entries, an ioctl
\* followed by a setsockopt.
C11_Witness ==
    /\ last.op \in {"activate", "bind"} /\ "replay" \in detail.real
    /\ last.fd \in DOMAIN registry
    /\ Len(registry[last.fd].sockopts) = MaxCached
    /\ registry[last.fd].sockopts[1][1] = "ioctl"
    /\ registry[last.fd].sockopts[2][1] = "sockopt"
    /\ registry[last.fd].sockopts = Logged(registry[last.fd])

----------------------------------------------------------------------------
(* Failures and results of single calls (SpecSock, SpecAddr).              *)

\* The real calls of a make_unix that failed: socket() alone, or a descriptor
\* that was closed again after replay or dup2 failed.
MakeUnixFailed(real) == real = {"socket"} \/ "close(newfd)" \in real

\* C12: when socket(), the replay or dup2 fails inside make_unix, the bind,
\* connect, activate or rewrite_dest that called it fails and the Socket, the
\* registry, the path registry and the files are as before: is_unix stays
\* false and the descriptor still is the original socket.
C12_MakeUnixFailure ==
    [][ \A fd \in DOMAIN registry :
          ( /\ last'.fd = fd
            /\ last'.op \in {"activate", "bind", "rewrite_dest", "connect"}
            /\ MakeUnixFailed(detail'.real) )
          => /\ last'.ret = -1
             /\ ~registry[fd].is_unix
             /\ registry' = registry
             /\ sockpath_registry' = sockpath_registry
             /\ fs' = fs ]_vars

\* C12 case: dup2 has just failed inside activate, on a Socket with a cached
\* option.
C12_Witness ==
    /\ last.op = "activate" /\ last.ret = -1
    /\ "dup2" \in detail.real /\ "close(newfd)" \in detail.real
    /\ last.fd \in DOMAIN registry
    /\ ~registry[last.fd].is_unix /\ ~registry[last.fd].activated
    /\ Len(registry[last.fd].sockopts) > 0

\* The call made in this step is op on the Socket at fd.
CallStep(op, fd) == last'.op = op /\ last'.fd = fd

\* connect takes the path of socket.cc:348-374 for the Socket s.
ExplicitConnect(s) == s.type /= "UDP" \/ Has(s.binding)

\* C13 as stated: connect of a TCP Socket, or of a UDP Socket that has a
\* binding, to an address whose port is 0 or absent returns -1 with
\* EADDRNOTAVAIL, makes no real connect and stores neither connection nor
\* sockpath nor binding.
C13_Orig ==
    [][ \A fd \in DOMAIN registry :
          ( /\ CallStep("connect", fd)
            /\ ExplicitConnect(registry[fd])
            /\ get_port(Val(detail'.arg)) \in {nullopt, Some(0)} )
          => /\ last'.ret = -1
             /\ detail'.errno = "EADDRNOTAVAIL"
             /\ "connect" \notin detail'.real
             /\ registry'[fd].connection = registry[fd].connection
             /\ registry'[fd].sockpath = registry[fd].sockpath
             /\ registry'[fd].binding = registry[fd].binding ]_vars

\* What a successful bind with the address addr leaves in the Socket at fd,
\* whatever path was bound: with port 0 the binding has the requested host
\* and a port of the ephemeral range that was free and is reserved now, and
\* the formatted path is the template formatted with that port; with another
\* port the binding is addr and its port is reserved.
BoundAs(fd, addr) ==
    LET s == registry[fd]
        t == registry'[fd]
        b == Val(t.binding)
    IN  /\ t.bound /\ Has(t.binding)
        /\ getsockname(t, sockpath_registry', fs').out = t.binding
        /\ get_host(b) = get_host(addr)
        /\ IF get_port(addr) = Some(0)
           THEN /\ Val(get_port(b)) /= 0
                /\ Val(get_port(b)) \in EphPorts \ s.ports
           ELSE b = addr
        /\ Val(get_port(b)) \in t.ports
        /\ \E path \in AddrTemplates : t.bpath = Some(format_sockpath(path, b, t.type))

\* C14 as stated: after a successful bind the path the descriptor is bound
\* to is the template formatted with the binding's port, and the binding and
\* the reserved ports are as BoundAs says.
C14_Orig ==
    [][ \A fd \in DOMAIN registry :
          (CallStep("bind", fd) /\ last'.ret = 0)
          => /\ BoundAs(fd, Val(detail'.arg))
             /\ registry'[fd].kpath = registry'[fd].bpath ]_vars

\* C14 (amended): after a successful bind the binding and the reserved ports
\* are as BoundAs says; the path the descriptor is bound to is the template
\* formatted with the binding's port unless the bind was sent to a blackhole
\* path (the Socket was a blackhole or the formatted path was registered),
\* in which case it is a blackhole path.
C14_BindPort ==
    [][ \A fd \in DOMAIN registry :
          (CallStep("bind", fd) /\ last'.ret = 0)
          => /\ BoundAs(fd, Val(detail'.arg))
             /\ IF bind_is_duplicate(registry[fd], sockpath_registry,
                                     Val(registry'[fd].bpath))
                THEN Val(registry'[fd].kpath) \in BhPaths
                ELSE /\ registry'[fd].kpath = registry'[fd].bpath
                     /\ registry'[fd].sockpath = registry'[fd].bpath
                     /\ Val(registry'[fd].bpath) \in fs' ]_vars

\* C14 case: a bind to port 0 has just succeeded on the formatted path, with
\* a port other than the lowest of the range.
C14_Witness ==
    /\ last.op = "bind" /\ last.ret = 0
    /\ get_port(Val(detail.arg)) = Some(0)
    /\ LET s == registry[last.fd] IN
       /\ Val(get_port(Val(s.binding))) > EphLo
       /\ s.kpath = Some(DecStr(Val(get_port(Val(s.binding)))))
       /\ ~s.is_blackhole

\* C15: after a successful connect(addr, template) getpeername returns addr,
\* sockpath is the formatted template and getsockname succeeds; a Socket
\* that had no binding before the call has a synthesized one (the loopback
\* host when addr is loopback, otherwise the host derived from the process's
\* own credentials; a port that was free in the allocator and is reserved
\* now), and a Socket that had a binding keeps it.
C15_ConnectStores ==
    [][ \A fd \in DOMAIN registry :
          (CallStep("connect", fd) /\ last'.ret = 0)
          => LET s == registry[fd]
                 t == registry'[fd]
                 addr == Val(detail'.arg)
             IN  /\ getpeername(t, sockpath_registry', fs').ret = 0
                 /\ getpeername(t, sockpath_registry', fs').out = Some(addr)
                 /\ \E path \in AddrTemplates :
                       t.sockpath = Some(format_sockpath(path, addr, t.type))
                 /\ getsockname(t, sockpath_registry', fs').ret = 0
                 /\ IF Has(s.binding)
                    THEN t.binding = s.binding
                    ELSE LET b == Val(t.binding) IN
                         /\ b.host = IF is_loopback(addr) THEN Some(Loopback)
                                     ELSE Some(CredSelf)
                         /\ Val(get_port(b)) \in EphPorts \ s.ports
                         /\ Val(get_port(b)) \in t.ports ]_vars

\* C15 case: a connect to a loopback address has just succeeded on a Socket
\* that had no binding, and its binding is a loopback one now.
C15_Witness ==
    /\ last.op = "connect" /\ last.ret = 0
    /\ last.note = "new binding"
    /\ is_loopback(Val(detail.arg))
    /\ Val(registry[last.fd].binding).host = Some(Loopback)
    /\ registry[last.fd].connection = detail.arg

\* C16: accept on a Socket that has no binding returns -1 with errno EINVAL,
\* registers no child Socket for the new descriptor, acquires no port, and
\* leaves the registry unchanged.
C16_AcceptUnbound ==
    [][ \A fd \in DOMAIN registry :
          (CallStep("accept", fd) /\ ~Has(registry[fd].binding))
          => /\ last'.ret = -1
             /\ detail'.errno = "EINVAL"
             /\ registry' = registry
             /\ lastReg' = lastReg
             /\ nextId' = nextId
             /\ acclog' = acclog ]_vars

\* C16 case: accept has just failed on a registered Socket without a binding.
C16_Witness ==
    /\ last.op = "accept" /\ last.ret = -1
    /\ last.fd \in DOMAIN registry
    /\ ~Has(registry[last.fd].binding)
    /\ detail.errno = "EINVAL"

\* C17 as stated: every successful accept on a Socket with a binding
\* registers a child at the new descriptor whose binding is the parent's and
\* whose connection is the synthesized peer (the loopback host if the
\* parent's binding is loopback, otherwise the host of the peer's
\* credentials); the peer's port differs from the port of every child
\* accepted before on the same Socket and from the parent's bound port.
C17_Orig ==
    [][ \A fd \in DOMAIN registry :
          (CallStep("accept", fd) /\ last'.note = "child")
          => LET s == registry[fd]
                 child == registry'[Val(detail'.arg)]
                 peer == Val(child.connection)
             IN  /\ last'.ret = Val(detail'.arg)
                 /\ child.binding = s.binding
                 /\ child.connection = detail'.out
                 /\ IF is_loopback(Val(s.binding))
                    THEN peer.host = Some(Loopback)
                    ELSE \E cred \in Creds : peer.host = Some(CredHost(cred))
                 /\ <<s.id, Val(get_port(peer))>> \notin acclog
                 /\ get_port(peer) /= get_port(Val(s.binding)) ]_vars

\* The call made by the step is a rewrite_dest, or a connect that goes
\* through rewrite_dest, on the Socket at fd.
DestStep(fd) == CallStep("rewrite_dest", fd) \/ CallStep("connect", fd)

\* C18: for a datagram Socket without a binding, a rewrite_dest that returns
\* a destination (directly or within connect) leaves the Socket UNIX, bound
\* to a blackhole path that was free, with a synthesized binding,
\* is_blackhole set and the blackhole handle stored; a stored handle is kept
\* and its path exists for as long as the Socket is registered; a later
\* rewrite_dest or connect on a Socket that holds a handle binds nothing and
\* creates no path; and rewrite_dest on a Socket that is not a datagram
\* Socket returns absent and changes nothing.
C18_ImplicitBlackhole ==
    [][ /\ \A fd \in DOMAIN registry :
             LET s == registry[fd] IN
             /\ ( /\ DestStep(fd)
                  /\ s.type = "UDP" /\ ~Has(s.binding)
                  /\ last'.ret = 0 \/ Has(registry'[fd].binding) )
                => LET t == registry'[fd] IN
                   /\ t.is_unix /\ t.is_blackhole
                   /\ Has(t.binding)
                   /\ Has(t.blackhole_ref)
                   /\ Val(t.blackhole_ref) \in BhPaths \ fs
                   /\ t.kpath = t.blackhole_ref
                   /\ "bind" \in detail'.real
                   /\ detail'.unl = {}
             /\ (DestStep(fd) /\ Has(s.blackhole_ref))
                => /\ "bind" \notin detail'.real
                   /\ registry'[fd].binding = s.binding
                   /\ fs' = fs
             /\ (CallStep("rewrite_dest", fd) /\ s.type /= "UDP")
                => /\ last'.ret = -1
                   /\ detail'.real = {}
                   /\ registry' = registry
                   /\ sockpath_registry' = sockpath_registry
                   /\ fs' = fs
             /\ ( /\ Has(s.blackhole_ref)
                  /\ fd \in DOMAIN registry'
                  /\ registry'[fd].id = s.id )
                => registry'[fd].blackhole_ref = s.blackhole_ref
        /\ \A fd \in DOMAIN registry' :
             Has(registry'[fd].blackhole_ref)
             => Val(registry'[fd].blackhole_ref) \in fs' ]_vars

\* C18 case: a datagram Socket that holds the handle of its implicit
\* blackhole binding has just connected again, and the blackhole path
\* exists.
C18_Witness ==
    /\ last.op = "connect" /\ last.ret = 0 /\ last.note = "had binding"
    /\ LET s == registry[last.fd] IN
       /\ s.type = "UDP"
       /\ Has(s.blackhole_ref)
       /\ Val(s.blackhole_ref) \in fs
       /\ s.kpath = s.blackhole_ref

\* The step changes nothing but the record of the call.
OnlyReports ==
    /\ registry' = registry
    /\ sockpath_registry' = sockpath_registry
    /\ fs' = fs
    /\ nextId' = nextId
    /\ lastReg' = lastReg

\* C20: getsockname returns 0 and writes the stored binding if the Socket
\* has one, otherwise returns -1 with errno EFAULT and writes nothing;
\* getpeername does the same for the stored connection; neither changes a
\* field of the Socket or either registry.
C20_NameQueries ==
    [][ \A fd \in DOMAIN registry :
          LET s == registry[fd] IN
          /\ CallStep("getsockname", fd)
             => /\ OnlyReports
                /\ IF Has(s.binding)
                   THEN last'.ret = 0 /\ detail'.out = s.binding
                   ELSE /\ last'.ret = -1 /\ detail'.errno = "EFAULT"
                        /\ detail'.out = nullopt
          /\ CallStep("getpeername", fd)
             => /\ OnlyReports
                /\ IF Has(s.connection)
                   THEN last'.ret = 0 /\ detail'.out = s.connection
                   ELSE /\ last'.ret = -1 /\ detail'.errno = "EFAULT"
                        /\ detail'.out = nullopt ]_vars

\* C20 case: getpeername has just failed with EFAULT on a Socket that has a
\* binding and no connection.
C20_Witness ==
    /\ last.op = "getpeername" /\ last.ret = -1
    /\ detail.errno = "EFAULT"
    /\ Has(registry[last.fd].binding)
    /\ ~Has(registry[last.fd].connection)

----------------------------------------------------------------------------
(* SpecThreads: several threads in intercepted calls at once.  Each call is *)
(* split at its accesses to Socket::registry and Socket::sockpath_registry: *)
(* a lookup is one step, a change takes two (it begins, it is applied), so  *)
(* that another thread can run while a container is half-updated.  Only     *)
(* Socket::create takes registry_mutex (socket.cc:28).  The kernel gives    *)
(* each descriptor to one call at a time.                                   *)

ThreadAddr == MkAddr(Loopback, EphLo)
ThreadTemplate == <<"s">>
ThreadPath(s) == format_sockpath(ThreadTemplate, ThreadAddr, s.type)

\* The access thread t makes to the container obj.
Access(t, obj, kind) ==
    [ t |-> t, obj |-> obj, kind |-> kind, held |-> registry_mutex = t,
      torn |-> busy[obj] \ {t} /= {} ]

\* What a lookup may return: its result, or anything while another thread is
\* changing the container (a data race).
LookupResults(t, obj, actual) ==
    IF busy[obj] \ {t} /= {} THEN BOOLEAN ELSE {actual}

\* Whether a change takes effect: it does, unless it overlapped the change of
\* another thread, when it may also be lost (a data race).
Applied(t, obj) ==
    IF thr[t].torn \/ busy[obj] \ {t} /= {} THEN BOOLEAN ELSE {TRUE}

\* A call is in progress on the descriptor fd.
InUse(fd) == \E t \in Threads : thr[t].pc /= "idle" /\ fd \in {thr[t].fd, thr[t].aux}

At(t, pc) == thr[t].pc = pc
Goto(t, pc) == thr' = [thr EXCEPT ![t].pc = pc]
Return(t) == thr' = [thr EXCEPT ![t] = Idle]

\* The thread begins to change the container obj.
BeginWrite(t, obj, kind, pc) ==
    /\ busy' = [busy EXCEPT ![obj] = @ \cup {t}]
    /\ acc' = Access(t, obj, kind)
    /\ thr' = [thr EXCEPT ![t].pc = pc, ![t].torn = busy[obj] \ {t} /= {}]

EndWrite(t, obj) == busy' = [busy EXCEPT ![obj] = @ \ {t}]

hist == <<last, detail, peerlog, optlog, acclog>>

\* socket(): the kernel returns the descriptor fd; Socket::create locks the
\* mutex (socket.cc:28).
T_create_lock(t, fd) ==
    /\ At(t, "idle")
    /\ fd \notin DOMAIN registry /\ ~InUse(fd)
    /\ nextId <= MaxThreadObjects
    /\ registry_mutex = 0
    /\ registry_mutex' = t
    /\ thr' = [thr EXCEPT ![t] = [Idle EXCEPT !.pc = "create", !.fd = fd]]
    /\ UNCHANGED <<registry, sockpath_registry, fs, nextId, lastReg, busy, acc>>
    /\ UNCHANGED <<hist, avars>>

\* socket.cc:31: registry[fd] = sock begins.
T_create_write(t) ==
    /\ At(t, "create")
    /\ BeginWrite(t, "registry", "insert", "create:end")
    /\ UNCHANGED <<registry, sockpath_registry, fs, nextId, lastReg, registry_mutex>>
    /\ UNCHANGED <<hist, avars>>

\* socket.cc:31-32: the entry is written, the lock is released on return.
T_create_end(t) ==
    /\ At(t, "create:end")
    /\ \E applied \in Applied(t, "registry") :
          /\ registry' = IF applied
                         THEN RegistryPut(registry, thr[t].fd,
                                          NewSocket(nextId, thr[t].fd, "SOCK_STREAM"))
                         ELSE registry
          /\ lastReg' = IF applied THEN [lastReg EXCEPT ![thr[t].fd] = nextId]
                        ELSE lastReg
    /\ nextId' = nextId + 1
    /\ EndWrite(t, "registry")
    /\ registry_mutex' = 0
    /\ Return(t)
    /\ UNCHANGED <<sockpath_registry, fs, acc>>
    /\ UNCHANGED <<hist, avars>>

\* The lookup of an intercepted bind, accept or close: Socket::find
\* (socket.cc:10-17).  Without a Socket the real call is made.
T_find(t, fd, op) ==
    /\ At(t, "idle")
    /\ ~InUse(fd)
    /\ acc' = Access(t, "registry", "find")
    /\ \E hit \in LookupResults(t, "registry", Has(find(registry, fd))) :
          thr' = IF hit /\ Has(find(registry, fd))
                 THEN [thr EXCEPT ![t] = [Idle EXCEPT !.pc = op, !.fd = fd]]
                 ELSE thr
    /\ UNCHANGED <<registry, sockpath_registry, fs, nextId, lastReg, registry_mutex,
                   busy>>
    /\ UNCHANGED <<hist, avars>>

\* Socket::bind up to its test of the path (socket.cc:263-284).
T_bind_check(t) ==
    /\ At(t, "bind")
    /\ LET s == make_unix(registry[thr[t].fd], FALSE, "none").s IN
       /\ registry' = RegistryPut(registry, thr[t].fd, s)
       /\ IF s.is_blackhole
          THEN /\ Goto(t, "bind:blackhole")
               /\ UNCHANGED acc
          ELSE /\ acc' = Access(t, "sockpath_registry", "find")
               /\ \E dup \in LookupResults(t, "sockpath_registry",
                                           has_sockpath(sockpath_registry, ThreadPath(s))) :
                     Goto(t, IF dup THEN "bind:blackhole" ELSE "bind:own")
    /\ UNCHANGED <<sockpath_registry, fs, nextId, lastReg, registry_mutex, busy>>
    /\ UNCHANGED <<hist, avars>>

\* socket.cc:285-292 and 302-307: the bind on a blackhole path.
T_bind_blackhole(t) ==
    /\ At(t, "bind:blackhole")
    /\ LET s == registry[thr[t].fd] IN
       \E bh \in BhChoices :
          LET o == bind_blackhole(s, sockpath_registry, fs, bh, get_port(ThreadAddr),
                                  ThreadAddr, ThreadPath(s), {}, nullopt, "none")
          IN  /\ registry' = RegistryPut(registry, thr[t].fd, o.s)
              /\ fs' = o.fs
    /\ Return(t)
    /\ UNCHANGED <<sockpath_registry, nextId, lastReg, registry_mutex, busy, acc>>
    /\ UNCHANGED <<hist, avars>>

\* socket.cc:294-297: the real bind on the formatted path.
T_bind_real(t) ==
    /\ At(t, "bind:own")
    /\ LET s == registry[thr[t].fd] IN
       IF real_bind_ok(s, ThreadPath(s), fs, "none")
       THEN /\ registry' = RegistryPut(registry, thr[t].fd,
                                       [s EXCEPT !.kpath = Some(ThreadPath(s))])
            /\ fs' = fs \cup {ThreadPath(s)}
            /\ Goto(t, "bind:insert")
       ELSE /\ Return(t)
            /\ UNCHANGED <<registry, fs>>
    /\ UNCHANGED <<sockpath_registry, nextId, lastReg, registry_mutex, busy, acc>>
    /\ UNCHANGED <<hist, avars>>

\* socket.cc:299: sockpath_registry.insert(newpath) begins.
T_bind_insert(t) ==
    /\ At(t, "bind:insert")
    /\ BeginWrite(t, "sockpath_registry", "insert", "bind:end")
    /\ UNCHANGED <<registry, sockpath_registry, fs, nextId, lastReg, registry_mutex>>
    /\ UNCHANGED <<hist, avars>>

\* socket.cc:298-307: the path is inserted and the Socket records the bind.
T_bind_end(t) ==
    /\ At(t, "bind:end")
    /\ LET s == registry[thr[t].fd] IN
       /\ \E applied \in Applied(t, "sockpath_registry") :
             sockpath_registry' = IF applied
                                  THEN sockpath_registry \cup {ThreadPath(s)}
                                  ELSE sockpath_registry
       /\ registry' = RegistryPut(registry, thr[t].fd,
                         bind_success([s EXCEPT !.sockpath = Some(ThreadPath(s))],
                                      get_port(ThreadAddr), ThreadAddr, ThreadPath(s)))
    /\ EndWrite(t, "sockpath_registry")
    /\ Return(t)
    /\ UNCHANGED <<fs, nextId, lastReg, registry_mutex, acc>>
    /\ UNCHANGED <<hist, avars>>

\* socket.cc:377-389: accept on a Socket without a binding.
T_accept_einval(t) ==
    /\ At(t, "accept")
    /\ ~Has(registry[thr[t].fd].binding)
    /\ Return(t)
    /\ UNCHANGED <<registry, sockpath_registry, fs, nextId, lastReg, registry_mutex,
                   busy, acc>>
    /\ UNCHANGED <<hist, avars>>

\* socket.cc:377-428: accept with the descriptor sockfd the real accept
\* returned, up to the beginning of registry[sockfd] = sock.
T_accept_write(t, sockfd) ==
    /\ At(t, "accept")
    /\ Has(registry[thr[t].fd].binding)
    /\ sockfd \notin DOMAIN registry /\ ~InUse(sockfd)
    /\ nextId <= MaxThreadObjects
    /\ busy' = [busy EXCEPT !.registry = @ \cup {t}]
    /\ acc' = Access(t, "registry", "insert")
    /\ thr' = [thr EXCEPT ![t].pc = "accept:end", ![t].aux = sockfd,
                           ![t].torn = busy.registry \ {t} /= {}]
    /\ UNCHANGED <<registry, sockpath_registry, fs, nextId, lastReg, registry_mutex>>
    /\ UNCHANGED <<hist, avars>>

\* socket.cc:428-429: the child is registered.
T_accept_end(t) ==
    /\ At(t, "accept:end")
    /\ \E pick \in PickChoices(thr[t].fd, FALSE), applied \in Applied(t, "registry") :
          LET ac == accept(registry[thr[t].fd], thr[t].aux, nextId, pick, "c1", "none")
              reg1 == RegistryPut(registry, thr[t].fd, ac.s)
          IN  /\ AcquireOk(registry[thr[t].fd], ac.acq)
              /\ registry' = IF applied
                             THEN RegistryPut(reg1, thr[t].aux, Val(ac.child))
                             ELSE reg1
              /\ lastReg' = IF applied THEN [lastReg EXCEPT ![thr[t].aux] = nextId]
                            ELSE lastReg
    /\ nextId' = nextId + 1
    /\ EndWrite(t, "registry")
    /\ Return(t)
    /\ UNCHANGED <<sockpath_registry, fs, registry_mutex, acc>>
    /\ UNCHANGED <<hist, avars>>

\* socket.cc:551-559: the real close and the unlink of an owned path.
T_close_real(t) ==
    /\ At(t, "close")
    /\ LET s == registry[thr[t].fd] IN
       IF close_owns_path(s)
       THEN /\ fs' = fs \ {Val(s.sockpath)}
            /\ Goto(t, "close:paths")
       ELSE /\ Goto(t, "close:registry")
            /\ UNCHANGED fs
    /\ UNCHANGED <<registry, sockpath_registry, nextId, lastReg, registry_mutex, busy,
                   acc>>
    /\ UNCHANGED <<hist, avars>>

\* socket.cc:560: sockpath_registry.erase(path) begins.
T_close_paths(t) ==
    /\ At(t, "close:paths")
    /\ BeginWrite(t, "sockpath_registry", "erase", "close:paths:end")
    /\ UNCHANGED <<registry, sockpath_registry, fs, nextId, lastReg, registry_mutex>>
    /\ UNCHANGED <<hist, avars>>

\* socket.cc:560-561: the path is erased and forgotten.
T_close_paths_end(t) ==
    /\ At(t, "close:paths:end")
    /\ LET s == registry[thr[t].fd] IN
       /\ \E applied \in Applied(t, "sockpath_registry") :
             sockpath_registry' = IF applied
                                  THEN sockpath_registry \ {Val(s.sockpath)}
                                  ELSE sockpath_registry
       /\ registry' = RegistryPut(registry, thr[t].fd, [s EXCEPT !.sockpath = nullopt])
    /\ EndWrite(t, "sockpath_registry")
    /\ thr' = [thr EXCEPT ![t].pc = "close:registry", ![t].torn = FALSE]
    /\ UNCHANGED <<fs, nextId, lastReg, registry_mutex, acc>>
    /\ UNCHANGED <<hist, avars>>

\* socket.cc:565: registry.erase(fd) begins.
T_close_registry(t) ==
    /\ At(t, "close:registry")
    /\ BeginWrite(t, "registry", "erase", "close:registry:end")
    /\ UNCHANGED <<registry, sockpath_registry, fs, nextId, lastReg, registry_mutex>>
    /\ UNCHANGED <<hist, avars>>

\* socket.cc:565-566: the entry is erased; the Socket is destroyed with the
\* caller's reference.
T_close_end(t) ==
    /\ At(t, "close:registry:end")
    /\ \E applied \in Applied(t, "registry") :
          /\ registry' = IF applied THEN RegistryErase(registry, thr[t].fd)
                         ELSE registry
          /\ lastReg' = IF applied THEN [lastReg EXCEPT ![thr[t].fd] = 0] ELSE lastReg
          /\ fs' = IF applied THEN fs \ DtorUnlinks(registry[thr[t].fd]) ELSE fs
    /\ EndWrite(t, "registry")
    /\ Return(t)
    /\ UNCHANGED <<sockpath_registry, nextId, registry_mutex, acc>>
    /\ UNCHANGED <<hist, avars>>

NextThreads ==
    \/ \E t \in Threads, fd \in Fds : T_create_lock(t, fd)
    \/ \E t \in Threads : T_create_write(t)
    \/ \E t \in Threads : T_create_end(t)
    \/ \E t \in Threads, fd \in Fds, op \in {"bind", "close", "accept"} : T_find(t, fd, op)
    \/ \E t \in Threads : T_bind_check(t)
    \/ \E t \in Threads : T_bind_blackhole(t)
    \/ \E t \in Threads : T_bind_real(t)
    \/ \E t \in Threads : T_bind_insert(t)
    \/ \E t \in Threads : T_bind_end(t)
    \/ \E t \in Threads : T_accept_einval(t)
    \/ \E t \in Threads, sockfd \in Fds : T_accept_write(t, sockfd)
    \/ \E t \in Threads : T_accept_end(t)
    \/ \E t \in Threads : T_close_real(t)
    \/ \E t \in Threads : T_close_paths(t)
    \/ \E t \in Threads : T_close_paths_end(t)
    \/ \E t \in Threads : T_close_registry(t)
    \/ \E t \in Threads : T_close_end(t)

SpecThreads == Init /\ [][NextThreads]_vars

\* Every access to a registry is made with the mutex held.
AccessesLocked == acc.obj /= "none" => acc.held

\* No access overlaps the change another thread is making to the container.
NoTornAccess == ~acc.torn

\* No two registered Sockets own the same path.
NoDoubleOwner ==
    \A fd1, fd2 \in DOMAIN registry :
       ( /\ fd1 /= fd2
         /\ OwnsBinding(registry[fd1]) /\ OwnsBinding(registry[fd2])
         /\ Has(registry[fd1].sockpath) )
       => registry[fd1].sockpath /= registry[fd2].sockpath

\* C19 as stated: with several threads in Socket operations, every change of
\* the registry (create, accept, close) and of the path registry (bind,
\* close) and every lookup (find, has_sockpath) is made while the registry
\* mutex is held, no lookup or change overlaps a change by another thread,
\* and no two Sockets own the same path.
C19_Orig == AccessesLocked /\ NoTornAccess /\ NoDoubleOwner

----------------------------------------------------------------------------
(* Properties of format_sockpath (SpecFormat).                             *)

\* The text that stands for the placeholder letter c.
Stands(c, addr, type) ==
    IF c = "%" THEN <<"%">>
    ELSE IF c = "a" THEN (IF Has(addr.host) THEN Chars(Val(addr.host)) ELSE Chars("unknown"))
    ELSE IF c = "p" THEN (IF Has(addr.port) THEN DecStr(Val(addr.port)) ELSE Chars("unknown"))
    ELSE IF type = "TCP" THEN Chars("tcp")
    ELSE IF type = "UDP" THEN Chars("udp")
    ELSE Chars("unknown")

\* Position i of path starts a placeholder: a % followed by one of the four
\* letters that is not itself the second character of a placeholder.
RECURSIVE StartsPlaceholder(_, _)
StartsPlaceholder(path, i) ==
    /\ i >= 1 /\ i < Len(path)
    /\ path[i] = "%"
    /\ path[i + 1] \in {"%", "p", "t", "a"}
    /\ ~StartsPlaceholder(path, i - 1)

\* The expansion of the first n characters of path, read left to right.
RECURSIVE Expansion(_, _, _, _)
Expansion(path, n, addr, type) ==
    IF n = 0 THEN <<>>
    ELSE Expansion(path, n - 1, addr, type) \o
         (IF StartsPlaceholder(path, n - 1) THEN Stands(path[n], addr, type)
          ELSE IF StartsPlaceholder(path, n) THEN <<>>
          ELSE <<path[n]>>)

\* C21: format_sockpath expands a template left to right: %% gives %, %a the
\* host string or unknown, %p the port string or unknown, %t tcp, udp or
\* unknown by the type of the Socket; any other pair %x and a % that is the
\* last character are copied as they are, as is every other character; so a
\* template without % is returned unchanged.
C21_Expansion ==
    Has(fmt.out) =>
        /\ Val(fmt.out) = Expansion(fmt.path, Len(fmt.path), fmt.addr, fmt.type)
        /\ (\A i \in 1..Len(fmt.path) : fmt.path[i] # "%") => Val(fmt.out) = fmt.path
        /\ (\A i \in 1..Len(fmt.path) : fmt.path[i] = "%" =>
                  i = Len(fmt.path) \/ fmt.path[i + 1] = "x") => Val(fmt.out) = fmt.path

\* A template whose second % is escaped by the first, so that the a after it is
\* an ordinary character, has been expanded on an address with a host.
C21_Witness ==
    /\ fmt.path = <<"%", "%", "a">>
    /\ Has(fmt.addr.host)
    /\ fmt.out = Some(<<"%", "a">>)

----------------------------------------------------------------------------
(* Properties of close and of the destructor (Spec).                       *)

\* The paths the Socket s bound itself: the path its descriptor is bound to,
\* unless the descriptor was adopted from the service manager.
BoundItself(s) == IF Has(s.kpath) /\ ~s.activated THEN {Val(s.kpath)} ELSE {}

\* C22 as stated: close and the destruction that follows it unlink, and erase
\* from the path registry, only a path that the closed Socket bound itself,
\* never the path of the socket it connected to.
C22_Orig ==
    [][ \A fd \in DOMAIN registry :
          (last'.op = "close" /\ last'.fd = fd) =>
              /\ fs \ fs' \subseteq BoundItself(registry[fd])
              /\ sockpath_registry \ sockpath_registry' \subseteq BoundItself(registry[fd])
      ]_vars

----------------------------------------------------------------------------
(* Properties of a failed bind (SpecAddr).                                 *)

\* The bind on fd that this step makes has failed.
BindFailed(fd) == CallStep("bind", fd) /\ last'.ret /= 0

\* A failed bind leaves bound, binding, sockpath and is_blackhole of the Socket
\* and the path registry as they were.
FailedBindKeeps(fd) ==
    /\ registry'[fd].bound = registry[fd].bound
    /\ registry'[fd].binding = registry[fd].binding
    /\ registry'[fd].sockpath = registry[fd].sockpath
    /\ registry'[fd].is_blackhole = registry[fd].is_blackhole
    /\ sockpath_registry' = sockpath_registry

\* C23 as stated: when bind returns a failure the Socket is not marked bound,
\* its binding, sockpath and is_blackhole and the path registry are as before
\* the call, and the port acquired for a request of port 0 is not reserved in
\* the Socket's pool afterwards.
C23_Orig ==
    [][ \A fd \in DOMAIN registry :
          BindFailed(fd) =>
              /\ FailedBindKeeps(fd)
              /\ registry'[fd].ports \subseteq registry[fd].ports ]_vars

----------------------------------------------------------------------------
(* Properties of is_unix (SpecAccept).                                     *)

\* C24 as stated: every registered Socket that has a binding or a connection
\* has is_unix = true, the children registered by accept included.
C24_Orig ==
    \A fd \in DOMAIN registry :
        (Has(registry[fd].binding) \/ Has(registry[fd].connection))
            => registry[fd].is_unix

----------------------------------------------------------------------------
(* Properties of the binding that connect synthesizes (SpecAddr).          *)

\* C25 as stated: after a successful connect on a Socket that had no binding,
\* the port of the synthesized local binding differs from the remote port of
\* the recorded connection.
C25_Orig ==
    [][ \A fd \in DOMAIN registry :
          ( /\ CallStep("connect", fd) /\ last'.ret = 0
            /\ ~Has(registry[fd].binding) )
          => /\ Has(registry'[fd].binding) /\ Has(registry'[fd].connection)
             /\ get_port(Val(registry'[fd].binding))
                    /= get_port(Val(registry'[fd].connection)) ]_vars

----------------------------------------------------------------------------
(* Properties of the launcher (SpecMain), stated on the command line.      *)

\* The number of leading words of the command line that are options: the
\* words before the first word that is no option and before a terminator.
OptionWords(argv) ==
    LET stops == { i \in 1..Len(argv) : argv[i].opt \in {"--", "prog"} }
    IN  IF stops = {} THEN Len(argv) ELSE MinOf(stops) - 1

\* The words left for the program, after the options and a terminator.
ProgramWords(argv) ==
    LET n == OptionWords(argv)
        first == IF n < Len(argv) /\ argv[n + 1].opt = "--" THEN n + 2 ELSE n + 1
    IN  SubSeq(argv, first, Len(argv))

GivenOption(argv, o) == \E i \in 1..OptionWords(argv) : argv[i].opt = o

\* The kinds of rule source on the command line: -r, -f, -F.
SourceKinds(argv) == { k \in {"f", "F", "r"} : GivenOption(argv, k) }

\* The rule texts that count: every -r argument, or the last -f or -F argument.
GivenRules(argv) ==
    LET IsR(w) == w.opt = "r"
        at(k) == { i \in 1..OptionWords(argv) : argv[i].opt = k }
        lastOf(k) == CHOOSE i \in at(k) : \A j \in at(k) : j <= i
        rs == SelectSeq(SubSeq(argv, 1, OptionWords(argv)), IsR)
    IN  IF GivenOption(argv, "r") THEN [i \in 1..Len(rs) |-> rs[i].arg]
        ELSE IF GivenOption(argv, "f") THEN <<argv[lastOf("f")].arg>>
        ELSE IF GivenOption(argv, "F") THEN <<argv[lastOf("F")].arg>>
        ELSE <<>>

RulesObtained(argv) ==
    /\ Cardinality(SourceKinds(argv)) = 1
    /\ \A i \in 1..Len(GivenRules(argv)) : Parses(GivenRules(argv)[i])

LaunchAllowed(argv) ==
    /\ RulesObtained(argv)
    /\ ~GivenOption(argv, "c")
    /\ Len(ProgramWords(argv)) >= 1

\* C26: main reaches run_preload, and so the exec of the program with the
\* rules exported in __IP2UNIX_RULES, only if rules were obtained from exactly
\* one kind of source (-r, or -f, or -F), every rule parsed, -c was not given
\* and at least one program word remains; on every other path no program is
\* executed; and main returns success only for -h, --version and a -c check
\* that succeeded.
C26_Launch ==
    cli.pc /= "none" =>
        /\ (cli.pc = "run_preload" \/ cli.ran) => LaunchAllowed(cli.argv)
        /\ Has(cli.image) =>
              /\ cli.ran
              /\ Val(cli.image) = ProgramWords(cli.argv)
              /\ cli.IP2UNIX_RULES = Some(GivenRules(cli.argv))
        /\ ~LaunchAllowed(cli.argv) => ~Has(cli.image)
        /\ cli.status = Some("EXIT_SUCCESS") =>
              \/ GivenOption(cli.argv, "h")
              \/ GivenOption(cli.argv, "V")
              \/ GivenOption(cli.argv, "c") /\ RulesObtained(cli.argv)

\* The program was executed after two -r rules, with one argument of its own.
C26_Witness ==
    /\ cli.pc = "exec"
    /\ Len(cli.rules) = 2
    /\ Has(cli.image) /\ Len(Val(cli.image)) = 2
    /\ cli.IP2UNIX_RULES = Some(<<"good", "good">>)

====
